---- MODULE Spec2Model ----
(***************************************************************************)
(* A model of grunt, a World of Warcraft addon manager (src/src/lib.rs,    *)
(* src/src/main.rs, src/src/addon.rs, src/src/lockfile.rs).                *)
(*                                                                         *)
(* Strings that the code compares or converts (version strings) are        *)
(* sequences of byte values; directory names and addon ids, which the code *)
(* only tests for equality, are TLA+ strings.  Rust indexes are 0-based   *)
(* and are kept 0-based in Updateable.index and Conflict.addon_x_index;    *)
(* the element at Rust index i of a Vec v is v[i + 1] here.                 *)
(***************************************************************************)
EXTENDS Integers, Sequences, FiniteSets, TLC

(***************************************************************************)
(* Bounds of the model.                                                    *)
(***************************************************************************)
\* longest version string
MaxVerLen == 2
\* most entries at the top level of an unpacked package, and most names in
\* an addon's dirs
MaxDirs == 2
\* most addons in the list handed to check_conflicts
MaxConflictAddons == 3
\* most bytes of a file that is fingerprinted
MaxFileLen == 3
\* most whitespace bytes inserted into the files of a directory
MaxInserts == 1

\* top-level directory names under the root (and inside packages)
DirNames == {"A", "B", "C"}
\* bytes a version string is made of: '1' and '9'
VerChars == {49, 57}
\* ids of the files the Curse API lists
FileIds == {9, 11}

(***************************************************************************)
(* Generic helpers for Vec and iterator operations.                        *)
(***************************************************************************)
Range(s) == {s[k] : k \in 1..Len(s)}

SeqsUpTo(S, n) == UNION {[1..k -> S] : k \in 0..n}

NoRepeat(s) == \A i, j \in 1..Len(s) : i # j => s[i] # s[j]

RECURSIVE Concat(_)
\* Iterator::flat_map(..).collect(): the concatenation of a Vec of Vecs
Concat(ss) == IF ss = <<>> THEN <<>> ELSE Head(ss) \o Concat(Tail(ss))

\* slice::contains
Contains(s, x) == \E k \in 1..Len(s) : s[k] = x

(***************************************************************************)
(* String conversions and comparisons.                                     *)
(***************************************************************************)
IsDigit(c) == c \in 48..57

\* str::parse::<i64> is Ok: an optional sign and at least one digit; the
\* strings of the model carry no sign and are far below i64::MAX
ParseOk(s) == Len(s) > 0 /\ \A k \in 1..Len(s) : IsDigit(s[k])

RECURSIVE ParseI64(_)
\* str::parse::<i64> of a string of digits
ParseI64(s) ==
    IF s = <<>> THEN 0
    ELSE 10 * ParseI64(SubSeq(s, 1, Len(s) - 1)) + (s[Len(s)] - 48)

RECURSIVE I64ToString(_)
\* i64::to_string of a value >= 0: decimal, no leading zero
I64ToString(n) ==
    IF n < 10 THEN <<48 + n>>
    ELSE Append(I64ToString(n \div 10), 48 + (n % 10))

RECURSIVE StrLess(_, _)
\* String's Ord: byte-wise lexicographic, a proper prefix is smaller
StrLess(a, b) ==
    IF b = <<>> THEN FALSE
    ELSE IF a = <<>> THEN TRUE
    ELSE IF a[1] # b[1] THEN a[1] < b[1]
    ELSE StrLess(Tail(a), Tail(b))

StrGreater(a, b) == StrLess(b, a)

VersionStrings == SeqsUpTo(VerChars, MaxVerLen) \ {<<>>}

(***************************************************************************)
(* Data model.                                                             *)
(***************************************************************************)
\* enum AddonType
AddonType == {"Curse", "Tukui", "TSM"}

\* struct Addon; to_info and from_info copy it field by field
Addon(name, addon_type, addon_id, version, dirs) ==
    [name |-> name, addon_type |-> addon_type, addon_id |-> addon_id,
     version |-> version, dirs |-> dirs]

\* struct Updateable
Updateable(index, name, new_version, url) ==
    [index |-> index, name |-> name, new_version |-> new_version, url |-> url]

\* struct Conflict
Conflict(a, b, dir) == [addon_a_index |-> a, addon_b_index |-> b, dir |-> dir]

\* curse::AddonFile as far as update_addons reads it
CurseFile(id, flavor) ==
    [id |-> id, game_version_flavor |-> flavor, download_url |-> <<"curse", id>>]

GameFlavors == {"wow_retail", "wow_classic"}

CurseFiles == {CurseFile(id, fl) : id \in FileIds, fl \in GameFlavors}

\* a dir under the root, or under a staging directory: absent, or present
\* with the files of the trees that were written into it.  Tree 0 is what
\* was on disk before the command; tree i + 1 is the package of the update
\* of the addon at index i
NoDir == [present |-> FALSE, files |-> {}]
DirOf(trees) == [present |-> TRUE, files |-> trees]

VARIABLES
    addons,        \* Grunt.addons
    lockfile,      \* the content of grunt.lockfile: a Vec of AddonInfo
    root_dir,      \* the top-level directories under Grunt.root_dir
    remote,        \* what the Curse and Tukui APIs answer
    pc,            \* where the running command is
    proposed,      \* update_addons: `outdated` as the Plan step computed it
    outdated,      \* update_addons: `outdated` as check_update returned it
    tmp_dir,       \* update_addons: the unpacked<index> directories
    fetched,       \* update_addons: the par_iter tasks that have ended
    progress,      \* update_addons: the position of the running loop
    conflicts,     \* the Vec check_conflicts returned
    addons0,       \* history: addons when the command started
    root0,         \* history: root_dir when the command started
    dir_tree,      \* the files under each top-level directory of the root
    untracked,     \* resolve: `untracked`
    new_addons,    \* resolve: `new_addons`
    to_parse,      \* resolve_curse: `to_parse` of the running walk
    to_fingerprint,\* resolve_curse: `to_fingerprint` of the running walk
    fingerprints,  \* resolve_curse: the outer `fingerprints`
    events,        \* what `prog` was called with
    dir_tree0,     \* history: dir_tree when the command started
    to_remove,     \* remove_addons, remove_dirs: the names still to be removed
    names0,        \* history: the names the command was given
    find_fs,       \* find_file: the directory tree under the root of the file system
    find_path,     \* find_file: `path`, as its segments
    find_out       \* find_file: what the call ended with

\* the state of the resolve command
resolve_vars == <<dir_tree, untracked, new_addons, to_parse, to_fingerprint,
                  fingerprints, events, dir_tree0>>

\* the state of the update command
update_vars == <<proposed, outdated, tmp_dir, fetched, progress>>

vars == <<addons, lockfile, root_dir, remote, pc, proposed, outdated, tmp_dir,
          fetched, progress, conflicts, addons0, root0, dir_tree, untracked,
          new_addons, to_parse, to_fingerprint, fingerprints, events, dir_tree0,
          to_remove, names0, find_fs, find_path, find_out>>

\* the state of a call of find_file
find_vars == <<find_fs, find_path, find_out>>

\* the state of the remove and rmdir commands
remove_vars == <<to_remove, names0>>

(***************************************************************************)
(* update_addons, the Plan step: lib.rs 212-336.                           *)
(***************************************************************************)
\* Vec::get(index).unwrap()
Get(v, index) == v[index + 1]

\* lib.rs 214-219: (addon_id, parsed version) of the Curse addons
curse_ids(as) ==
    LET RECURSIVE F(_)
        F(k) == IF k > Len(as) THEN <<>>
                ELSE IF as[k].addon_type = "Curse"
                     THEN <<<<as[k].addon_id, ParseI64(as[k].version)>>>> \o F(k + 1)
                     ELSE F(k + 1)
    IN F(1)

\* lib.rs 218: version().parse().unwrap() panics on a version that is no number
CurseVersionsParse(as) ==
    \A k \in 1..Len(as) : as[k].addon_type = "Curse" => ParseOk(as[k].version)

\* lib.rs 221-226: the ids of the Tukui addons other than ElvUI
tukui_ids(as) ==
    {as[k].addon_id : k \in {j \in 1..Len(as) :
        as[j].addon_type = "Tukui" /\ as[j].addon_id # "-2"}}

\* lib.rs 228-231
has_elvui_addon(as) ==
    \E k \in 1..Len(as) : as[k].addon_type = "Tukui" /\ as[k].addon_id = "-2"

\* a slip: the files of every flavor are looked at
RetailFiles_AnyFlavor(files) == files

\* lib.rs 250-251: only look at retail files
RetailFiles(files) == {f \in files : f.game_version_flavor = "wow_retail"}

\* lib.rs 247-253: the file with the highest id
LatestFile(files) ==
    CHOOSE f \in RetailFiles(files) : \A g \in RetailFiles(files) : g.id <= f.id

\* a panic: the command ends there, nothing more runs
Panicked == [ok |-> FALSE, val |-> <<>>]
Returned(v) == [ok |-> TRUE, val |-> v]

\* lib.rs 236-261: the curse thread; it panics when an addon has no retail
\* file (unwrap of None, line 253)
curse_thread(as, rem) ==
    LET ids == {p[1] : p \in Range(curse_ids(as))}
    IN  IF \E id \in ids : RetailFiles(rem.curse[id]) = {}
        THEN Panicked
        ELSE Returned([id \in ids |->
                <<LatestFile(rem.curse[id]).id,
                  LatestFile(rem.curse[id]).download_url>>])

\* lib.rs 263-277: the tukui thread; the remote list holds every tracked id
\* (FixedRemote, VersionsRemotes), so the expect of the find never fires
tukui_thread(as, rem) ==
    [id \in tukui_ids(as) |-> <<rem.tukui[id].version, rem.tukui[id].url>>]

\* lib.rs 279-285: the elvui thread
elvui_thread(as, rem) ==
    IF ~has_elvui_addon(as) THEN <<<<>>, <<>>>>
    ELSE <<rem.elvui.version, rem.elvui.url>>

\* HashMap::remove leaves the other entries
MapRemove(m, key) == [k \in DOMAIN m \ {key} |-> m[k]]

\* a slip: the latest file is proposed when it is the installed one too
CurseNewer_OrSame(latest, current) == latest >= current

\* lib.rs 302: the index-style comparison
CurseNewer(latest, current) == latest > current

\* a slip: any other version is taken for a newer one
TukuiNewer_Differs(latest, curr) == latest # curr

\* lib.rs 316: the comparison of the other sources
TukuiNewer(latest, curr) == StrGreater(latest, curr)

RECURSIVE Outdated(_, _, _, _, _)
\* lib.rs 293-336: the filter_map over the addon list, from position k on;
\* it panics when a map has no entry left for the addon's id (unwrap of
\* None, lines 301 and 313)
Outdated(as, k, latest_curse, latest_tukui, elvui_info) ==
    IF k > Len(as) THEN Returned(<<>>)
    ELSE
      LET addon == as[k]
          index == k - 1
          id == addon.addon_id
          upd(version, url) == Updateable(index, addon.name, version, url)
          Cons(here, rest) ==
              IF rest.ok THEN Returned(here \o rest.val) ELSE Panicked
      IN  CASE addon.addon_type = "Curse" ->
                 IF id \notin DOMAIN latest_curse THEN Panicked
                 ELSE LET current == ParseI64(addon.version)
                          latest == latest_curse[id][1]
                          url == latest_curse[id][2]
                      IN Cons(IF CurseNewer(latest, current)
                              THEN <<upd(I64ToString(latest), url)>> ELSE <<>>,
                              Outdated(as, k + 1, MapRemove(latest_curse, id),
                                       latest_tukui, elvui_info))
            [] addon.addon_type = "Tukui" /\ id = "-2" ->
                 Cons(IF TukuiNewer(elvui_info[1], addon.version)
                      THEN <<upd(elvui_info[1], elvui_info[2])>> ELSE <<>>,
                      Outdated(as, k + 1, latest_curse, latest_tukui, elvui_info))
            [] addon.addon_type = "Tukui" /\ id # "-2" ->
                 IF id \notin DOMAIN latest_tukui THEN Panicked
                 ELSE Cons(IF TukuiNewer(latest_tukui[id][1], addon.version)
                           THEN <<upd(latest_tukui[id][1], latest_tukui[id][2])>>
                           ELSE <<>>,
                           Outdated(as, k + 1, latest_curse,
                                    MapRemove(latest_tukui, id), elvui_info))
            [] OTHER -> Outdated(as, k + 1, latest_curse, latest_tukui, elvui_info)

\* lib.rs 212-336: the Plan step as a whole
PlanResult(as, rem) ==
    IF ~CurseVersionsParse(as) THEN Panicked
    ELSE IF ~curse_thread(as, rem).ok THEN Panicked
    ELSE Outdated(as, 1, curse_thread(as, rem).val, tukui_thread(as, rem),
                  elvui_thread(as, rem))

(***************************************************************************)
(* update_addons after the Plan step: lib.rs 345-474.                      *)
(***************************************************************************)
\* an entry at the top level of an unpacked<index> directory
Entry(name, is_file) == [name |-> name, is_file |-> is_file]

\* an unpacked<index> directory that does not exist
NoUnpacked == [present |-> FALSE, entries |-> <<>>]
Unpacked(entries) == [present |-> TRUE, entries |-> entries]

\* lib.rs 393
outdated_indexes(outd) == [k \in 1..Len(outd) |-> outd[k].index]

\* a slip: the dirs of every addon are taken for dirs to remove
dirs_to_remove_EveryAddon(as, outd) ==
    Concat([k \in 1..Len(as) |-> as[k].dirs])

\* lib.rs 385-392: the dirs of the addons being updated
dirs_to_remove(as, outd) ==
    Concat([k \in 1..Len(outd) |-> Get(as, outd[k].index).dirs])

\* lib.rs 394-400: the dirs of the addons that are not being updated
untouched_dirs(as, outd) ==
    Concat([k \in 1..Len(as) |->
              IF Contains(outdated_indexes(outd), k - 1) THEN <<>> ELSE as[k].dirs])

\* a slip: a file at the top level of a package is not looked for
FileFound_Never(tmp, outd) == FALSE

\* lib.rs 410-413: a file at the top level of an unpacked directory panics
FileFound(tmp, outd) ==
    \E k \in 1..Len(outd) :
        \E e \in 1..Len(tmp[outd[k].index].entries) :
            tmp[outd[k].index].entries[e].is_file

\* lib.rs 401-418: the names at the top level of the unpacked directories
new_dirs(tmp, outd) ==
    Concat([k \in 1..Len(outd) |->
              [e \in 1..Len(tmp[outd[k].index].entries) |->
                 tmp[outd[k].index].entries[e].name]])

\* a slip: only neighbours are compared
NewDirsDuplicate_Adjacent(names) ==
    \E i \in 1..(Len(names) - 1) : names[i] = names[i + 1]

\* lib.rs 419-426: two of the new dirs are the same
NewDirsDuplicate(names) ==
    \E i \in 1..Len(names) : \E j \in (i + 1)..Len(names) :
        names[i] = names[j]

\* a slip: only the last new dir is compared
NewDirsUntouched_LastOnly(names, others) ==
    Len(names) > 0 /\ Contains(others, names[Len(names)])

\* lib.rs 427-434: a new dir is a dir of an addon that is not being updated
NewDirsUntouched(names, others) ==
    \E i \in 1..Len(names) : Contains(others, names[i])

\* a slip: the new dirs are not compared with anything
ValidatePanics_FilesOnly(as, tmp, outd) ==
    \/ \E k \in 1..Len(outd) : ~tmp[outd[k].index].present
    \/ FileFound(tmp, outd)

\* lib.rs 401-434: the checks before any file under the root is touched
ValidatePanics(as, tmp, outd) ==
    \/ \E k \in 1..Len(outd) : ~tmp[outd[k].index].present
    \/ FileFound(tmp, outd)
    \/ NewDirsDuplicate(new_dirs(tmp, outd))
    \/ NewDirsUntouched(new_dirs(tmp, outd), untouched_dirs(as, outd))

\* lib.rs 436-441: one turn of the loop that deletes the old dirs
remove_dir_all(root, dir_name) ==
    IF root[dir_name].present THEN [root EXCEPT ![dir_name] = NoDir] ELSE root

RECURSIVE CopyEntries(_, _, _)
\* lib.rs 445-457: the walk over one unpacked directory; a dir that exists
\* under the root keeps its files and gets the package's files too
CopyEntries(root, entries, tree) ==
    IF entries = <<>> THEN root
    ELSE CopyEntries(
           [root EXCEPT ![Head(entries).name] =
                DirOf(root[Head(entries).name].files \cup {tree})],
           Tail(entries), tree)

\* lib.rs 464-470: the directories at the top level of an unpacked directory
UnpackedDirNames(unpacked) ==
    LET RECURSIVE F(_)
        F(es) == IF es = <<>> THEN <<>>
                 ELSE IF Head(es).is_file THEN F(Tail(es))
                 ELSE <<Head(es).name>> \o F(Tail(es))
    IN F(unpacked.entries)

\* a slip: set_version is left out
UpdatedAddon_KeepsVersion(addon, unpacked, upd) ==
    [addon EXCEPT !.dirs = UnpackedDirNames(unpacked)]

\* lib.rs 462-472: the record of one updated addon
UpdatedAddon(addon, unpacked, upd) ==
    [addon EXCEPT !.dirs = UnpackedDirNames(unpacked),
                  !.version = upd.new_version]

\* addon.rs 29-37: Addon::to_info
to_info(addon) ==
    [name |-> addon.name, addon_type |-> addon.addon_type,
     addon_id |-> addon.addon_id, version |-> addon.version, dirs |-> addon.dirs]

\* lockfile.rs 21-24: Lockfile::from_grunt
from_grunt(as) == [k \in 1..Len(as) |-> to_info(as[k])]

\* lockfile.rs 33-39: struct AddonInfo as the file holds it; it declares
\* name, addon_type, addon_id and dirs
AddonInfoFields == {"name", "addon_type", "addon_id", "dirs"}

\* lockfile.rs 26-30: Lockfile::save writes the fields AddonInfo declares
save(infos) ==
    [k \in 1..Len(infos) |-> [f \in AddonInfoFields |-> infos[k][f]]]

(***************************************************************************)
(* The states the update command starts in.                                *)
(***************************************************************************)
\* the names of the addons of the list, in the list's order
AddonNames == <<"P", "Q">>

\* the indexes of the addon list
AddonIndexes == 0..(Len(AddonNames) - 1)

\* the order in which a directory is enumerated
DirOrder == <<"A", "B", "C">>

RECURSIVE SubSeqs(_)
\* the sub-sequences of s
SubSeqs(s) ==
    IF s = <<>> THEN {<<>>}
    ELSE SubSeqs(Tail(s)) \cup {<<Head(s)>> \o t : t \in SubSeqs(Tail(s))}

\* the lists of dirs an addon owns at the start
OwnedDirLists == {s \in SubSeqs(DirOrder) : Len(s) <= MaxDirs}

\* what the top level of an unpacked package holds
PackageTops ==
    {s \in SubSeqs([k \in 1..Len(DirOrder) |-> Entry(DirOrder[k], FALSE)]
                   \o <<Entry("README", TRUE)>>) : Len(s) <= MaxDirs}

TukuiInfo(id, version) == [version |-> version, url |-> <<"tukui", id, version>>]

\* the remote of the states that vary the dirs: every Curse addon has file 9
\* for retail and file 11 for classic, every Tukui addon version "9"
FixedRemote ==
    [curse |-> [id \in {"1", "2"} |->
                  {CurseFile(9, "wow_retail"), CurseFile(11, "wow_classic")}],
     tukui |-> [id \in {"1", "2"} |-> TukuiInfo(id, <<57>>)],
     elvui |-> TukuiInfo("-2", <<57>>)]

\* the top-level directories under the root at the start: all of them, or
\* all but "A"
RootDirs0 ==
    {[d \in DirNames |-> IF d \in S THEN DirOf({0}) ELSE NoDir] :
        S \in {DirNames, DirNames \ {"A"}}}

\* no call of find_file is looked at
NoFind ==
    /\ find_fs = <<>>
    /\ find_path = <<>>
    /\ find_out = <<>>

\* the resolve command is not running
NoResolve ==
    /\ dir_tree = [d \in DirNames |-> <<>>]
    /\ untracked = <<>>
    /\ new_addons = <<>>
    /\ to_parse = <<>>
    /\ to_fingerprint = {}
    /\ fingerprints = <<>>
    /\ events = <<>>
    /\ dir_tree0 = dir_tree

\* what Grunt::new leaves, for every content of the lockfile in `lists`
InitWith(lists, remotes) ==
    /\ addons \in lists
    /\ lockfile = save(from_grunt(addons))
    /\ root_dir \in RootDirs0
    /\ remote \in remotes
    /\ pc = "start"
    /\ proposed = <<>>
    /\ outdated = <<>>
    /\ tmp_dir = [i \in AddonIndexes |-> NoUnpacked]
    /\ fetched = [done |-> {}, panicked |-> {}]
    /\ progress = 0
    /\ conflicts = <<>>
    /\ addons0 = addons
    /\ root0 = root_dir
    /\ NoResolve
    /\ to_remove = <<>>
    /\ names0 = to_remove
    /\ NoFind

\* two addons of the index-style or of the other source, each with an update
\* ("1") or none ("99") against FixedRemote, owning any dirs; the second may
\* carry the id of the first
DirsLists ==
    {<<Addon(AddonNames[1], t1, "1", v1, d1), Addon(AddonNames[2], t2, i2, v2, d2)>> :
        t1 \in {"Curse", "Tukui"}, t2 \in {"Curse", "Tukui"}, i2 \in {"1", "2"},
        v1 \in {<<49>>, <<57, 57>>}, v2 \in {<<49>>, <<57, 57>>},
        d1 \in OwnedDirLists, d2 \in OwnedDirLists}

\* one addon of any source and any version, against any remote answer
VersionsLists ==
    {<<Addon(AddonNames[1], t, i, v, <<"A">>)>> :
        t \in AddonType, i \in {"1", "-2"}, v \in VersionStrings}

\* the list holds one addon, so one of the two Tukui answers is read at most:
\* both carry the same version
VersionsRemotes ==
    {[curse |-> [id \in {"1", "-2"} |-> fs],
      tukui |-> [id \in {"1"} |-> TukuiInfo(id, tv)],
      elvui |-> TukuiInfo("-2", tv)] :
        fs \in {x \in SUBSET CurseFiles : Cardinality(x) <= 2},
        tv \in VersionStrings}

Init ==
    \/ InitWith(DirsLists, {FixedRemote})
    \/ InitWith(VersionsLists, VersionsRemotes)

(***************************************************************************)
(* The update command: main.rs 93 and lib.rs 208-474.                      *)
(***************************************************************************)
\* lib.rs 212-336
Plan ==
    /\ UNCHANGED find_vars
    /\ pc = "start"
    /\ UNCHANGED remove_vars
    /\ LET res == PlanResult(addons, remote)
       IN  IF res.ok
           THEN /\ proposed' = res.val
                /\ pc' = "confirm"
           ELSE /\ proposed' = proposed
                /\ pc' = "panic"
    /\ UNCHANGED resolve_vars
    /\ UNCHANGED <<addons, lockfile, root_dir, remote, outdated, tmp_dir,
                   fetched, progress, conflicts, addons0, root0>>

\* lib.rs 346: check_update returns the updates the user accepts
Confirm ==
    /\ UNCHANGED find_vars
    /\ pc = "confirm"
    /\ UNCHANGED remove_vars
    /\ outdated' \in SubSeqs(proposed)
    /\ pc' = "fetch"
    /\ UNCHANGED resolve_vars
    /\ UNCHANGED <<addons, lockfile, root_dir, remote, proposed, tmp_dir,
                   fetched, progress, conflicts, addons0, root0>>

\* lib.rs 350-381: one task of the par_iter, which downloads and unpacks
\* the package of one update
FetchOk(k) ==
    /\ UNCHANGED find_vars
    /\ pc = "fetch"
    /\ UNCHANGED remove_vars
    /\ k \in 1..Len(outdated)
    /\ k \notin fetched.done
    /\ \E top \in PackageTops :
         tmp_dir' = [tmp_dir EXCEPT ![outdated[k].index] = Unpacked(top)]
    /\ fetched' = [fetched EXCEPT !.done = @ \cup {k}]
    /\ UNCHANGED resolve_vars
    /\ UNCHANGED <<addons, lockfile, root_dir, remote, pc, proposed, outdated,
                   progress, conflicts, addons0, root0>>

\* lib.rs 354-355, 364: the download fails before unpacked<index> is made,
\* or the archive cannot be read after it is made; the task panics
FetchPanics(k) ==
    /\ UNCHANGED find_vars
    /\ pc = "fetch"
    /\ UNCHANGED remove_vars
    /\ k \in 1..Len(outdated)
    /\ k \notin fetched.done
    /\ \E made \in BOOLEAN :
         tmp_dir' = [tmp_dir EXCEPT ![outdated[k].index] =
                        IF made THEN Unpacked(<<>>) ELSE NoUnpacked]
    /\ fetched' = [done |-> fetched.done \cup {k},
                    panicked |-> fetched.panicked \cup {k}]
    /\ UNCHANGED resolve_vars
    /\ UNCHANGED <<addons, lockfile, root_dir, remote, pc, proposed, outdated,
                   progress, conflicts, addons0, root0>>

\* a slip: the panic of a task is swallowed
JoinPanics_Swallowed(tasks) == FALSE

\* lib.rs 350, 381: for_each panics when one of its tasks panicked
JoinPanics(tasks) == tasks.panicked # {}

\* a slip: the loop that copies comes before the loop that deletes
PhaseAfter_CopyFirst(phase, as, outd) ==
    IF phase = "validate" /\ Len(outd) > 0 THEN "copy"
    ELSE IF phase = "copy" /\ Len(dirs_to_remove(as, outd)) > 0 THEN "delete"
    ELSE IF phase \in {"copy", "delete"} /\ Len(outd) > 0 THEN "finalize"
    ELSE "done"

\* the phase after the checks, and after each loop: a loop over an empty Vec
\* takes no turn
PhaseAfter(phase, as, outd) ==
    IF phase = "validate" /\ Len(dirs_to_remove(as, outd)) > 0 THEN "delete"
    ELSE IF phase \in {"validate", "delete"} /\ Len(outd) > 0 THEN "copy"
    ELSE IF phase \in {"validate", "delete", "copy"} /\ Len(outd) > 0 THEN "finalize"
    ELSE "done"

\* lib.rs 381: for_each returns when every task has ended;
\* lib.rs 383-434: the checks
Validate ==
    /\ UNCHANGED find_vars
    /\ pc = "fetch"
    /\ UNCHANGED remove_vars
    /\ fetched.done = 1..Len(outdated)
    /\ pc' = IF JoinPanics(fetched) \/ ValidatePanics(addons, tmp_dir, outdated)
             THEN "panic"
             ELSE PhaseAfter("validate", addons, outdated)
    /\ UNCHANGED resolve_vars
    /\ UNCHANGED <<addons, lockfile, root_dir, remote, proposed, outdated,
                   tmp_dir, fetched, progress, conflicts, addons0, root0>>

\* lib.rs 436-441: one turn of the loop over dirs_to_remove
DeleteOld ==
    /\ UNCHANGED find_vars
    /\ pc = "delete"
    /\ UNCHANGED remove_vars
    /\ root_dir' = remove_dir_all(root_dir, dirs_to_remove(addons, outdated)[progress + 1])
    /\ IF progress + 1 < Len(dirs_to_remove(addons, outdated))
       THEN progress' = progress + 1 /\ pc' = pc
       ELSE progress' = 0 /\ pc' = PhaseAfter("delete", addons, outdated)
    /\ UNCHANGED resolve_vars
    /\ UNCHANGED <<addons, lockfile, remote, proposed, outdated, tmp_dir,
                   fetched, conflicts, addons0, root0>>

\* lib.rs 443-458: one turn of the loop over outdated_indexes
CopyNew ==
    /\ UNCHANGED find_vars
    /\ pc = "copy"
    /\ UNCHANGED remove_vars
    /\ LET index == outdated_indexes(outdated)[progress + 1]
       IN root_dir' = CopyEntries(root_dir, tmp_dir[index].entries, index + 1)
    /\ IF progress + 1 < Len(outdated)
       THEN progress' = progress + 1 /\ pc' = pc
       ELSE progress' = 0 /\ pc' = PhaseAfter("copy", addons, outdated)
    /\ UNCHANGED resolve_vars
    /\ UNCHANGED <<addons, lockfile, remote, proposed, outdated, tmp_dir,
                   fetched, conflicts, addons0, root0>>

\* lib.rs 460-473: one turn of the loop over outdated; main.rs 93: the
\* update command ends when update_addons returns
Finalize ==
    /\ UNCHANGED find_vars
    /\ pc = "finalize"
    /\ UNCHANGED remove_vars
    /\ LET upd == outdated[progress + 1]
       IN addons' = [addons EXCEPT ![upd.index + 1] =
                        UpdatedAddon(@, tmp_dir[upd.index], upd)]
    /\ IF progress + 1 < Len(outdated)
       THEN progress' = progress + 1 /\ pc' = pc
       ELSE progress' = 0 /\ pc' = "done"
    /\ UNCHANGED resolve_vars
    /\ UNCHANGED <<lockfile, root_dir, remote, proposed, outdated, tmp_dir,
                   fetched, conflicts, addons0, root0>>

Next ==
    \/ Plan
    \/ Confirm
    \/ \E k \in 1..Len(AddonNames) : FetchOk(k)
    \/ \E k \in 1..Len(AddonNames) : FetchPanics(k)
    \/ Validate
    \/ DeleteOld
    \/ CopyNew
    \/ Finalize

Spec == Init /\ [][Next]_vars

(***************************************************************************)
(* check_conflicts: lib.rs 476-495.                                        *)
(***************************************************************************)
\* a slip: .skip(i), an addon is compared with itself
FirstOther_Self(i) == i

\* lib.rs 480: .skip(i + 1), the index of the first `other` of addon i
FirstOther(i) == i + 1

\* lib.rs 482-491: the conflicts of the addons at indexes i and j
PairConflicts(as, i, j) ==
    Concat([d \in 1..Len(Get(as, i).dirs) |->
              IF Contains(Get(as, j).dirs, Get(as, i).dirs[d])
              THEN <<Conflict(i, j, Get(as, i).dirs[d])>>
              ELSE <<>>])

\* lib.rs 477-495
check_conflicts(as) ==
    Concat([a \in 1..Len(as) |->
              Concat([b \in 1..Len(as) |->
                        IF b - 1 >= FirstOther(a - 1)
                        THEN PairConflicts(as, a - 1, b - 1)
                        ELSE <<>>])])

\* the addon lists handed to check_conflicts: any dirs, names repeated or not
ConflictLists ==
    {as \in SeqsUpTo({Addon("X", "Tukui", "1", <<49>>, d) :
                         d \in SeqsUpTo({"A", "B"}, MaxDirs)},
                     MaxConflictAddons) : TRUE}

InitConflicts ==
    /\ addons \in ConflictLists
    /\ lockfile = save(from_grunt(addons))
    /\ root_dir = [d \in DirNames |-> DirOf({0})]
    /\ remote = FixedRemote
    /\ pc = "check_conflicts"
    /\ proposed = <<>>
    /\ outdated = <<>>
    /\ tmp_dir = [i \in AddonIndexes |-> NoUnpacked]
    /\ fetched = [done |-> {}, panicked |-> {}]
    /\ progress = 0
    /\ conflicts = <<>>
    /\ addons0 = addons
    /\ root0 = root_dir
    /\ NoResolve
    /\ to_remove = <<>>
    /\ names0 = to_remove
    /\ NoFind

\* main.rs 115: the call of check_conflicts
CheckConflictsCall ==
    /\ UNCHANGED find_vars
    /\ pc = "check_conflicts"
    /\ UNCHANGED remove_vars
    /\ conflicts' = check_conflicts(addons)
    /\ pc' = "checked"
    /\ UNCHANGED resolve_vars
    /\ UNCHANGED <<addons, lockfile, root_dir, remote, proposed, outdated,
                   tmp_dir, fetched, progress, addons0, root0>>

NextConflicts == CheckConflictsCall

SpecConflicts == InitConflicts /\ [][NextConflicts]_vars

(***************************************************************************)
(* 32-bit unsigned values.  A u32 is the pair of its 16-bit halves, so     *)
(* that no intermediate value leaves the range of the checker's integers.  *)
(***************************************************************************)
U32(hi, lo) == <<hi, lo>>

U32Values == (0..65535) \X (0..65535)

RECURSIVE Xor(_, _)
\* the ^ of two naturals
Xor(a, b) ==
    IF a = 0 THEN b
    ELSE IF b = 0 THEN a
    ELSE 2 * Xor(a \div 2, b \div 2) + ((a + b) % 2)

XorU32(x, y) == U32(Xor(x[1], y[1]), Xor(x[2], y[2]))

\* the 32-bit product of two 16-bit values
Mul16(a, b) ==
    LET p1 == (a \div 256) * b
        p0 == (a % 256) * b
        s == (p1 % 256) * 256 + p0
    IN  U32((p1 \div 256 + s \div 65536) % 65536, s % 65536)

\* u32::wrapping_mul
MulU32(x, y) ==
    LET ll == Mul16(x[2], y[2])
    IN  U32((ll[1] + Mul16(x[1], y[2])[2] + Mul16(x[2], y[1])[2]) % 65536, ll[2])

RECURSIVE Pow2(_)
Pow2(n) == IF n = 0 THEN 1 ELSE 2 * Pow2(n - 1)

\* x >> r, for 0 < r < 32
ShrU32(x, r) ==
    IF r >= 16 THEN U32(0, x[1] \div Pow2(r - 16))
    ELSE U32(x[1] \div Pow2(r),
             (x[1] % Pow2(r)) * Pow2(16 - r) + x[2] \div Pow2(r))

\* the Ord of u32
LessU32(x, y) == x[1] < y[1] \/ (x[1] = y[1] /\ x[2] < y[2])

RECURSIVE U32ToString(_)
\* u32::to_string: decimal, no leading zero
U32ToString(x) ==
    IF x[1] = 0 /\ x[2] < 10 THEN <<48 + x[2]>>
    ELSE LET s == (x[1] % 10) * 65536 + x[2]
         IN  Append(U32ToString(U32(x[1] \div 10, s \div 10)), 48 + (s % 10))

(***************************************************************************)
(* murmur2::calculate_hash: the 32-bit MurmurHash2.  The module murmur2    *)
(* (lib.rs 18) is not among the sources; this is the hash the              *)
(* specification names (spec.md, 4.1 HashEngine).                          *)
(***************************************************************************)
\* the multiplier m = 0x5bd1e995
MurmurM == U32(23505, 59797)

\* one 4-byte block k mixed into h
MurmurMix(h, k) ==
    LET k1 == MulU32(k, MurmurM)
        k2 == XorU32(k1, ShrU32(k1, 24))
        k3 == MulU32(k2, MurmurM)
    IN  XorU32(MulU32(h, MurmurM), k3)

RECURSIVE MurmurBody(_, _)
\* the blocks of 4 bytes, little-endian, then the 0 to 3 bytes that remain
MurmurBody(h, data) ==
    IF Len(data) >= 4
    THEN LET mixed == MurmurMix(h, U32(data[4] * 256 + data[3],
                                       data[2] * 256 + data[1]))
         IN  CASE mixed \in U32Values ->
                    MurmurBody(mixed, SubSeq(data, 5, Len(data)))
    ELSE LET h3 == IF Len(data) >= 3 THEN XorU32(h, U32(data[3], 0)) ELSE h
             h2 == IF Len(data) >= 2 THEN XorU32(h3, U32(0, data[2] * 256)) ELSE h3
         IN  IF Len(data) >= 1
             THEN MulU32(XorU32(h2, U32(0, data[1])), MurmurM)
             ELSE h2

calculate_hash(data, seed) ==
    LET h0 == XorU32(U32(0, seed), U32(0, Len(data)))
        h1 == MurmurBody(h0, data)
        h2 == XorU32(h1, ShrU32(h1, 13))
        h3 == MulU32(h2, MurmurM)
    IN  XorU32(h3, ShrU32(h3, 15))

(***************************************************************************)
(* resolve_curse, the walk over one untracked directory: lib.rs 637-728.   *)
(***************************************************************************)
\* Option::None
None == [some |-> FALSE]
Some(v) == [some |-> TRUE, val |-> v]

\* the directive lines of a descriptor file: lib.rs 124-126
Directives(tukui_id, tukui_dirs, version) ==
    [tukui_id |-> tukui_id, tukui_dirs |-> tukui_dirs, version |-> version]

NoDirectives == Directives(None, None, None)

\* a file under a top-level directory: whether its relative path matches
\* the two inclusion patterns of the category, whether file_parsing_rules
\* has a rule for its extension, the paths that rule's inclusion_pattern
\* captures in it, its bytes, and the directives among its lines
FileOf(initial, extra, has_rule, includes, content, directives) ==
    [initial |-> initial, extra |-> extra, has_rule |-> has_rule,
     includes |-> includes, content |-> content, directives |-> directives]

\* "Addon.toc" stands for <dir>/<dir>.toc, the descriptor of the directory
\* it lies in
TocName == "Addon.toc"

\* the names of the files of a directory, in the order glob yields them
GlobOrder == <<"Addon.toc", "Art.tga", "Core.lua">>

\* str::to_ascii_lowercase of the names and of the paths files refer to
Lower(name) ==
    CASE name = "Addon.toc" -> "addon.toc"
      [] name = "Art.tga" -> "art.tga"
      [] name = "Core.lua" -> "core.lua"
      [] name = "CORE.LUA" -> "core.lua"
      [] name = "Lib" -> "lib"
      [] name = "LIB" -> "lib"
      [] OTHER -> name

\* lib.rs 785-821: find_file of a path one level below a directory that
\* exists.  The path itself when it exists; else a child that is the same
\* up to ASCII case, the first one read_dir yields, in an order that is not
\* defined; the unwrap of line 817 panics when there is none
find_file(files, path) ==
    IF path \in DOMAIN files THEN {Returned(path)}
    ELSE IF \E n \in DOMAIN files : Lower(n) = Lower(path)
         THEN {Returned(n) : n \in {m \in DOMAIN files : Lower(m) = Lower(path)}}
         ELSE {Panicked}

RECURSIVE GlobFiles_ExtraFirst(_, _, _)
\* a slip: the extra-inclusion pattern is tried first
GlobFiles_ExtraFirst(files, k, st) ==
    IF k > Len(GlobOrder) THEN st
    ELSE LET path == GlobOrder[k]
         IN  IF path \notin DOMAIN files THEN GlobFiles_ExtraFirst(files, k + 1, st)
             ELSE IF files[path].extra
                  THEN GlobFiles_ExtraFirst(files, k + 1, <<st[1], st[2] \cup {path}>>)
             ELSE IF files[path].initial
                  THEN GlobFiles_ExtraFirst(files, k + 1, <<Append(st[1], path), st[2]>>)
             ELSE GlobFiles_ExtraFirst(files, k + 1, st)

RECURSIVE GlobFiles(_, _, _)
\* lib.rs 646-666: the loop over the paths glob yields, from position k on;
\* `st` is the pair of to_parse and to_fingerprint
GlobFiles(files, k, st) ==
    IF k > Len(GlobOrder) THEN st
    ELSE LET path == GlobOrder[k]
         IN  IF path \notin DOMAIN files THEN GlobFiles(files, k + 1, st)
             ELSE IF files[path].initial
                  THEN GlobFiles(files, k + 1, <<Append(st[1], path), st[2]>>)
             ELSE IF files[path].extra
                  THEN GlobFiles(files, k + 1, <<st[1], st[2] \cup {path}>>)
             ELSE GlobFiles(files, k + 1, st)

\* a slip: tab bytes are kept
StripWhitespace_KeepsTab(data) ==
    SelectSeq(data, LAMBDA b : b # 32 /\ b # 10 /\ b # 13)

\* lib.rs 711-715: the bytes of a file without ' ', '\n', '\r' and '\t'
StripWhitespace(data) ==
    SelectSeq(data, LAMBDA b : b # 32 /\ b # 10 /\ b # 13 /\ b # 9)

\* lib.rs 709-717: the fingerprint of one file
FileFingerprint(file) == calculate_hash(StripWhitespace(file.content), 1)

\* a slip: the fingerprints are left in the order of the iteration
SortU32_Unsorted(s) == s

RECURSIVE SortU32(_)
\* lib.rs 721: Vec::sort, ascending
SortU32(s) ==
    IF s = <<>> THEN <<>>
    ELSE LET rest == SortU32(Tail(s))
             below == SelectSeq(rest, LAMBDA x : LessU32(x, Head(s)))
             above == SelectSeq(rest, LAMBDA x : ~LessU32(x, Head(s)))
         IN  below \o <<Head(s)>> \o above

\* lib.rs 706-727: the fingerprint of a directory, `order` being the order
\* in which the HashSet to_fingerprint is iterated
AggregateFingerprint(files, order) ==
    LET prints == SortU32([k \in 1..Len(order) |-> FileFingerprint(files[order[k]])])
        to_hash == Concat([k \in 1..Len(prints) |-> U32ToString(prints[k])])
    IN  calculate_hash(to_hash, 1)

\* the orders in which a HashSet may be iterated
Orders(set) ==
    {s \in [1..Cardinality(set) -> set] : Range(s) = set}

RECURSIVE PushIncludes_SkipsMissing(_, _, _)
\* a slip: a path that find_file does not find is passed over
PushIncludes_SkipsMissing(files, includes, queue) ==
    IF includes = <<>> THEN {Returned(queue)}
    ELSE UNION {IF r.ok
                THEN PushIncludes_SkipsMissing(files, Tail(includes), Append(queue, r.val))
                ELSE PushIncludes_SkipsMissing(files, Tail(includes), queue) :
                  r \in find_file(files, Head(includes))}

RECURSIVE PushIncludes(_, _, _)
\* lib.rs 690-702: every path the inclusion pattern captures is resolved by
\* find_file and pushed to the back of to_parse; the set of the queues that
\* may result, or a panic
PushIncludes(files, includes, queue) ==
    IF includes = <<>> THEN {Returned(queue)}
    ELSE UNION {IF r.ok
                THEN PushIncludes(files, Tail(includes), Append(queue, r.val))
                ELSE {Panicked} : r \in find_file(files, Head(includes))}

\* lib.rs 669-704: one turn of the loop that drains to_parse; `st` is the
\* pair of to_parse and to_fingerprint
ParseStep(files, st) ==
    LET path == Head(st[1])
        set == st[2] \cup {path}
    IN  IF path \notin DOMAIN files THEN {Panicked}
        ELSE IF ~files[path].has_rule THEN {Returned(<<Tail(st[1]), set>>)}
        ELSE {IF q.ok THEN Returned(<<q.val, set>>) ELSE Panicked :
                q \in PushIncludes(files, files[path].includes, Tail(st[1]))}

(***************************************************************************)
(* The walk over one directory, "A", step by step.                         *)
(***************************************************************************)
\* bytes of the files: 'a', 'b', 'c' and the four bytes the walk drops
Whitespace == {32, 9, 13, 10}

\* a directory made of the files that are there
DirFiles(toc, art, core) ==
    [n \in {TocName} \cup (IF art.some THEN {"Art.tga"} ELSE {})
                     \cup (IF core.some THEN {"Core.lua"} ELSE {}) |->
        IF n = TocName THEN toc ELSE IF n = "Art.tga" THEN art.val ELSE core.val]

\* directories of every shape: the descriptor includes nothing, a file in
\* another case, itself, or a file that is not there
ShapeDirs ==
    {DirFiles(FileOf(TRUE, FALSE, TRUE, inc, <<97>>, NoDirectives), art, core) :
        inc \in {<<>>, <<"core.lua">>, <<"Addon.toc">>, <<"gone.lua">>},
        art \in {None} \cup
                {Some(FileOf(i, TRUE, FALSE, <<>>, <<98, 9>>, NoDirectives)) :
                    i \in BOOLEAN},
        core \in {None} \cup
                 {Some(FileOf(FALSE, e, TRUE, inc2, <<99>>, NoDirectives)) :
                    e \in BOOLEAN, inc2 \in {<<>>, <<"Addon.toc">>}}}

\* the contents of a file before bytes are inserted
Contents == {<<97>>, <<98, 9>>}

\* directories of one shape and every content
ContentDirs ==
    {DirFiles(FileOf(TRUE, FALSE, TRUE, <<"core.lua">>, c1, NoDirectives),
              Some(FileOf(FALSE, TRUE, FALSE, <<>>, c2, NoDirectives)),
              Some(FileOf(FALSE, FALSE, TRUE, <<>>, c3, NoDirectives))) :
        c1 \in Contents, c2 \in Contents, c3 \in Contents}

\* byte b inserted into s so that it comes at position p
InsertAt(s, p, b) == SubSeq(s, 1, p - 1) \o <<b>> \o SubSeq(s, p, Len(s))

RECURSIVE WhitespaceInserted(_, _)
\* the directories that `files` becomes when at most n whitespace bytes are
\* inserted into its files
WhitespaceInserted(files, n) ==
    IF n = 0 THEN {files}
    ELSE LET before == WhitespaceInserted(files, n - 1)
         IN  before \cup
             {[g EXCEPT ![f].content = InsertAt(@, p, b)] :
                 <<g, f, p, b>> \in
                   {x \in before \X (DOMAIN files) \X (1..(MaxFileLen + 1)) \X Whitespace :
                      /\ x[3] <= Len(x[1][x[2]].content) + 1
                      /\ Len(x[1][x[2]].content) < MaxFileLen}}

\* the root holds directory "A" alone, with these files
OnlyA(files) == [d \in DirNames |-> IF d = "A" THEN files ELSE <<>>]

InitFingerprint ==
    /\ \/ /\ dir_tree0 \in {OnlyA(f) : f \in ShapeDirs}
          /\ dir_tree = dir_tree0
       \/ /\ dir_tree0 \in {OnlyA(f) : f \in ContentDirs}
          /\ dir_tree \in {OnlyA(f) : f \in WhitespaceInserted(dir_tree0["A"], MaxInserts)}
    /\ addons = <<>>
    /\ lockfile = <<>>
    /\ root_dir = [d \in DirNames |-> IF d = "A" THEN DirOf({0}) ELSE NoDir]
    /\ remote = FixedRemote
    /\ pc = "glob"
    /\ proposed = <<>>
    /\ outdated = <<>>
    /\ tmp_dir = [i \in AddonIndexes |-> NoUnpacked]
    /\ fetched = [done |-> {}, panicked |-> {}]
    /\ progress = 0
    /\ conflicts = <<>>
    /\ addons0 = addons
    /\ root0 = root_dir
    /\ untracked = <<"A">>
    /\ new_addons = <<>>
    /\ to_parse = <<>>
    /\ to_fingerprint = {}
    /\ fingerprints = <<>>
    /\ events = <<>>
    /\ to_remove = <<>>
    /\ names0 = to_remove
    /\ NoFind

\* lib.rs 646-666: the files glob yields are put in to_parse or in
\* to_fingerprint
Glob ==
    /\ UNCHANGED find_vars
    /\ pc = "glob"
    /\ UNCHANGED remove_vars
    /\ LET st == GlobFiles(dir_tree[untracked[1]], 1, <<<<>>, {}>>)
       IN  /\ to_parse' = st[1]
           /\ to_fingerprint' = st[2]
    /\ pc' = "parse"
    /\ UNCHANGED <<addons, lockfile, root_dir, remote, conflicts, addons0, root0,
                   dir_tree, untracked, new_addons, fingerprints, events, dir_tree0>>
    /\ UNCHANGED update_vars

\* lib.rs 669-704: one turn of the loop over to_parse
ParseNext ==
    /\ UNCHANGED find_vars
    /\ pc = "parse"
    /\ UNCHANGED remove_vars
    /\ to_parse # <<>>
    /\ \E r \in ParseStep(dir_tree[untracked[1]], <<to_parse, to_fingerprint>>) :
         IF r.ok
         THEN /\ to_parse' = r.val[1]
              /\ to_fingerprint' = r.val[2]
              /\ pc' = pc
         ELSE /\ pc' = "panic"
              /\ UNCHANGED <<to_parse, to_fingerprint>>
    /\ UNCHANGED <<addons, lockfile, root_dir, remote, conflicts, addons0, root0,
                   dir_tree, untracked, new_addons, fingerprints, events, dir_tree0>>
    /\ UNCHANGED update_vars

\* lib.rs 706-727: the files of to_fingerprint are hashed, in the order in
\* which the HashSet yields them
HashFiles ==
    /\ UNCHANGED find_vars
    /\ pc = "parse"
    /\ UNCHANGED remove_vars
    /\ to_parse = <<>>
    /\ \E order \in Orders(to_fingerprint) :
         fingerprints' =
            Append(fingerprints, AggregateFingerprint(dir_tree[untracked[1]], order))
    /\ pc' = "hashed"
    /\ UNCHANGED <<addons, lockfile, root_dir, remote, conflicts, addons0, root0,
                   dir_tree, untracked, new_addons, to_parse, to_fingerprint,
                   events, dir_tree0>>
    /\ UNCHANGED update_vars

NextFingerprint ==
    \/ Glob
    \/ ParseNext
    \/ HashFiles

SpecFingerprint == InitFingerprint /\ [][NextFingerprint]_vars

\* the walk over the directories of every shape, with the bytes they have.
\* A turn of the loop at a file that includes itself leaves to_parse and
\* to_fingerprint as they are, so the cycles looked at here are those
\* through two files, whose turns do change the queue
InitShapes ==
    /\ InitFingerprint
    /\ dir_tree = dir_tree0
    /\ dir_tree["A"] \in ShapeDirs
    /\ \A n \in DOMAIN dir_tree["A"] : ~Contains(dir_tree["A"][n].includes, n)

\* the task of the walk runs on: the loops of lib.rs 646-704 have no point
\* at which they wait
SpecWalk ==
    InitShapes /\ [][NextFingerprint]_vars /\ WF_vars(Glob) /\ WF_vars(ParseNext)

(***************************************************************************)
(* find_file on paths of several segments: lib.rs 785-821.                 *)
(***************************************************************************)
\* a file, and a directory with these children
FileNode == [dir |-> FALSE, children |-> <<>>]
DirNode(children) == [dir |-> TRUE, children |-> children]

RECURSIVE Lookup(_, _)
\* Path::exists: the node at the path, taken segment by segment as written
Lookup(node, path) ==
    IF path = <<>> THEN Some(node)
    ELSE IF node.dir /\ Head(path) \in DOMAIN node.children
         THEN Lookup(node.children[Head(path)], Tail(path))
         ELSE None

\* lib.rs 794-798: the longest prefix of the path that exists
NearestExisting(fs, path) ==
    CHOOSE k \in 0..Len(path) :
        /\ Lookup(fs, SubSeq(path, 1, k)).some
        /\ \A j \in (k + 1)..Len(path) : ~Lookup(fs, SubSeq(path, 1, j)).some

\* the children of the directory at `current` that are the segment up to
\* ASCII case; read_dir of a file fails
CaseMatches(fs, current, to_find) ==
    LET node == Lookup(fs, current).val
    IN  IF ~node.dir THEN {}
        ELSE {n \in DOMAIN node.children : Lower(n) = Lower(to_find)}

RECURSIVE MatchToFinds(_, _, _)
\* lib.rs 800-820: the loop over to_finds; at each level `find` takes the
\* first child read_dir yields that is the segment up to case, in an order
\* that is not defined, and the unwraps panic when read_dir fails or no
\* child is
MatchToFinds(fs, current, to_finds) ==
    IF to_finds = <<>> THEN {Returned(current)}
    ELSE LET found == CaseMatches(fs, current, Head(to_finds))
         IN  IF found = {} THEN {Panicked}
             ELSE UNION {MatchToFinds(fs, Append(current, n), Tail(to_finds)) :
                            n \in found}

\* lib.rs 787-821: find_file of a path below the root of `fs`
find_file_path(fs, path) ==
    LET k == NearestExisting(fs, path)
    IN  MatchToFinds(fs, SubSeq(path, 1, k), SubSeq(path, k + 1, Len(path)))

\* the call of find_file
FindFile ==
    /\ pc = "find"
    /\ \E r \in find_file_path(find_fs, find_path) :
          /\ find_out' = r
          /\ pc' = IF r.ok THEN "found" ELSE "panic"
    /\ UNCHANGED <<addons, lockfile, root_dir, remote, conflicts, addons0, root0,
                   find_fs, find_path>>
    /\ UNCHANGED remove_vars
    /\ UNCHANGED resolve_vars
    /\ UNCHANGED update_vars

\* the files of a directory of the trees: any of two names that are one
\* name up to case
LuaFiles ==
    {[n \in S |-> FileNode] : S \in SUBSET {"Core.lua", "CORE.LUA"}}

\* the trees: files "Core.lua" and "CORE.LUA" and directories "Lib" and
\* "LIB", each there or not, the directories with any such files
FindTrees ==
    {DirNode([n \in DOMAIN files \cup DOMAIN dirs |->
                IF n \in DOMAIN files THEN files[n] ELSE dirs[n]]) :
        files \in LuaFiles,
        dirs \in UNION {[S -> {DirNode(f) : f \in LuaFiles}] : S \in SUBSET {"Lib", "LIB"}}}

\* the paths asked for: one or two segments
FindPaths ==
    {<<a>> : a \in {"core.lua", "Core.lua", "lib"}}
    \cup {<<a, b>> : a \in {"lib", "Lib", "core.lua"}, b \in {"core.lua", "Core.lua"}}

InitFindFile ==
    /\ find_fs \in FindTrees
    /\ find_path \in FindPaths
    /\ find_out = <<>>
    /\ pc = "find"
    /\ addons = <<>>
    /\ lockfile = <<>>
    /\ root_dir = [d \in DirNames |-> NoDir]
    /\ remote = FixedRemote
    /\ proposed = <<>>
    /\ outdated = <<>>
    /\ tmp_dir = [i \in AddonIndexes |-> NoUnpacked]
    /\ fetched = [done |-> {}, panicked |-> {}]
    /\ progress = 0
    /\ conflicts = <<>>
    /\ addons0 = addons
    /\ root0 = root_dir
    /\ NoResolve
    /\ to_remove = <<>>
    /\ names0 = <<>>

SpecFindFile == InitFindFile /\ [][FindFile]_vars

(***************************************************************************)
(* The resolve command: main.rs 94-134, lib.rs 64-200 and 609-747.         *)
(***************************************************************************)
\* the names of the two directories of TradeSkillMaster: lib.rs 100, 111
TsmNames == <<"TradeSkillMaster", "TradeSkillMaster_AppHelper">>

\* the top-level directories the root of the resolve command may hold, in
\* the order read_dir yields them
ReadDirOrder == <<"A", "B", "C", "TradeSkillMaster", "TradeSkillMaster_AppHelper">>

\* a slip: every directory under the root counts as untracked
find_untracked_AllDirs(root, as) ==
    SelectSeq(ReadDirOrder, LAMBDA d : root[d].present)

\* lib.rs 64-87: the directories under the root that no addon owns
find_untracked(root, as) ==
    LET all_dirs == SelectSeq(ReadDirOrder, LAMBDA d : root[d].present)
        all_tracked == Concat([k \in 1..Len(as) |-> as[k].dirs])
    IN  SelectSeq(all_dirs, LAMBDA d : ~Contains(all_tracked, d))

\* lib.rs 768-783: the version of a descriptor; it panics when the file is
\* not there or has no version line
get_toc_version(files) ==
    IF TocName \notin DOMAIN files THEN Panicked
    ELSE IF ~files[TocName].directives.version.some THEN Panicked
    ELSE Returned(files[TocName].directives.version.val)

\* addon.rs 68-77: Addon::init_tsm
init_tsm(version) ==
    Addon("TradeSkillMaster", "TSM", "TradeSkillMaster", version,
          <<"TradeSkillMaster">>)

\* addon.rs 80-89: Addon::init_tsm_helper
init_tsm_helper(version) ==
    Addon("TradeSkillMaster_AppHelper", "TSM", "AppHelper", version,
          <<"TradeSkillMaster_AppHelper">>)

\* i64::to_string of an id; the ids of the model are below 10
I64Name(n) == <<"0", "1", "2", "3", "4", "5", "6", "7", "8", "9">>[n + 1]

\* addon.rs 57-65: Addon::from_tukui_info
from_tukui_info(name, id, dirs, version) ==
    Addon(name, "Tukui", I64Name(id), version, dirs)

\* a slip: a folder list without a name is split into no name
SplitFolders_NoName(items) == items

\* lib.rs 152-158: split(',') of the folder list, whose names are `items`;
\* a list without a name is split into one empty name
SplitFolders(items) == IF items = <<>> THEN <<"">> ELSE items

\* addon.rs 92-94: Addon::desc_string
desc_string(addon) == <<addon.addon_type, addon.addon_id>>

\* enum ResolveProgress: lib.rs 763-766
NewAddon(name, desc) == [type |-> "NewAddon", name |-> name, desc |-> desc]
Finished(not_found) == [type |-> "Finished", not_found |-> not_found]

\* a slip: an addon whose descriptor has no version line is left out
TocAddon_NoVersionLeftOut(dir, files) ==
    IF TocName \notin DOMAIN files THEN Panicked
    ELSE LET d == files[TocName].directives
         IN  IF d.tukui_id.some /\ ~ParseOk(d.tukui_id.val) THEN Panicked
             ELSE IF ~d.tukui_id.some THEN Returned(None)
             ELSE IF ~d.tukui_dirs.some THEN Panicked
             ELSE IF ~d.version.some THEN Returned(None)
             ELSE Returned(Some(from_tukui_info(dir, ParseI64(d.tukui_id.val),
                                                SplitFolders(d.tukui_dirs.val),
                                                d.version.val)))

\* a slip: a directory without a descriptor is skipped
TocAddon_SkipsMissing(dir, files) ==
    IF TocName \notin DOMAIN files THEN Returned(None)
    ELSE LET d == files[TocName].directives
         IN  IF d.tukui_id.some /\ ~ParseOk(d.tukui_id.val) THEN Panicked
             ELSE IF ~d.tukui_id.some THEN Returned(None)
             ELSE IF ~d.tukui_dirs.some THEN Panicked
             ELSE IF ~d.version.some THEN Panicked
             ELSE Returned(Some(from_tukui_info(dir, ParseI64(d.tukui_id.val),
                                                SplitFolders(d.tukui_dirs.val),
                                                d.version.val)))

\* lib.rs 128-181: one turn of the loop over the untracked directories; the
\* addon the descriptor of `dir` describes, or none, or a panic
TocAddon(dir, files) ==
    IF TocName \notin DOMAIN files THEN Panicked
    ELSE LET d == files[TocName].directives
         IN  IF d.tukui_id.some /\ ~ParseOk(d.tukui_id.val) THEN Panicked
             ELSE IF ~d.tukui_id.some THEN Returned(None)
             ELSE IF ~d.tukui_dirs.some THEN Panicked
             ELSE IF ~d.version.some THEN Panicked
             ELSE Returned(Some(from_tukui_info(dir, ParseI64(d.tukui_id.val),
                                                SplitFolders(d.tukui_dirs.val),
                                                d.version.val)))

\* curse::Module, curse::File and curse::AddonFingerprintInfo as far as
\* resolve_curse and Addon::from_curse_info read them: curse.rs 157-223
Module(foldername, fingerprint) ==
    [foldername |-> foldername, fingerprint |-> fingerprint]

AddonFingerprintInfo(id, file_id, modules, package_fingerprint) ==
    [id |-> id,
     file |-> [id |-> file_id, modules |-> modules,
               package_fingerprint |-> package_fingerprint]]

\* addon.rs 40-54: Addon::from_curse_info
from_curse_info(dir_name, info) ==
    Addon(dir_name, "Curse", I64Name(info.id), I64ToString(info.file.id),
          [k \in 1..Len(info.file.modules) |-> info.file.modules[k].foldername])

\* curse.rs 28-36: the exact matches the API answers a batch with: the
\* files of its catalog of which a module, or the package when the file
\* lists no module, has a fingerprint of the batch
fingerprint_search(catalog, batch) ==
    SelectSeq(catalog, LAMBDA info :
        \/ \E k \in 1..Len(info.file.modules) :
              Contains(batch, info.file.modules[k].fingerprint)
        \/ /\ info.file.modules = <<>>
           /\ Contains(batch, info.file.package_fingerprint))

\* a slip: the last position that holds x
Position_Last(s, x) ==
    IF Contains(s, x)
    THEN Some(CHOOSE k \in 1..Len(s) : s[k] = x /\ \A j \in (k + 1)..Len(s) : s[j] # x)
    ELSE None

\* Iterator::position: the first position that holds x, 1-based here
Position(s, x) ==
    IF Contains(s, x)
    THEN Some(CHOOSE k \in 1..Len(s) : s[k] = x /\ \A j \in 1..(k - 1) : s[j] # x)
    ELSE None

\* lib.rs 737-745: the addon of one exact match; the unwraps of lines 741
\* and 742 panic when the file lists no module and when no fingerprint of
\* the batch is the fingerprint of its last module
MatchAddon(mat, batch, untr) ==
    IF mat.file.modules = <<>> THEN Panicked
    ELSE LET index == Position(batch, mat.file.modules[Len(mat.file.modules)].fingerprint)
         IN  IF ~index.some THEN Panicked
             ELSE Returned(from_curse_info(untr[index.val], mat))

RECURSIVE MatchAddons(_, _, _)
\* lib.rs 734-746: the map over the exact matches
MatchAddons(matches, batch, untr) ==
    IF matches = <<>> THEN Returned(<<>>)
    ELSE LET first == MatchAddon(Head(matches), batch, untr)
             rest == MatchAddons(Tail(matches), batch, untr)
         IN  IF ~first.ok \/ ~rest.ok THEN Panicked
             ELSE Returned(<<first.val>> \o rest.val)

RECURSIVE Drain(_, _)
\* lib.rs 669-704: the loop that drains to_parse, run to its end; the sets
\* to_fingerprint it may end with, or a panic
Drain(files, st) ==
    IF st[1] = <<>> THEN {Returned(st[2])}
    ELSE UNION {IF r.ok THEN Drain(files, r.val) ELSE {Panicked} :
                  r \in ParseStep(files, st)}

\* lib.rs 641-728: one task of the par_iter: the fingerprints the walk over
\* a directory may end with, or a panic
WalkOutcomes(files) ==
    UNION {IF set.ok
           THEN {Returned(AggregateFingerprint(files, order)) :
                    order \in Orders(set.val)}
           ELSE {Panicked} :
             set \in Drain(files, GlobFiles(files, 1, <<<<>>, {}>>))}

\* a slip: the fingerprints are collected in the order the tasks end
StoreFingerprint_AsCompleted(batch, k, print) ==
    LET free == CHOOSE j \in 1..Len(batch) :
                    ~batch[j].some /\ \A i \in 1..(j - 1) : batch[i].some
    IN  [batch EXCEPT ![free] = Some(print)]

\* lib.rs 729: collect_into_vec puts the result of the task of the k-th
\* directory at position k
StoreFingerprint(batch, k, print) == [batch EXCEPT ![k] = Some(print)]

\* the fingerprints of a batch whose tasks have all ended
BatchValues(batch) == [k \in 1..Len(batch) |-> batch[k].val]

\* a slip: the directories found untracked before the Curse step are reported
NotFound_BeforeCurse(root, as, untr) == untr

\* lib.rs 196-198: the directories that are untracked at the end
NotFound(root, as, untr) == find_untracked(root, as)

\* the root after remove_dir_all of the root itself: nothing is under it,
\* and it is not there
RootGone == [d \in {} |-> NoDir]

\* lib.rs 202-206 and lockfile.rs 21-30: Grunt::save_lockfile, which main
\* calls after resolve and check_conflicts (main.rs 133) and after
\* remove_addons (main.rs 168); File::create panics when the root is gone
SaveLockfile ==
    /\ UNCHANGED find_vars
    /\ \/ pc = "checked"
       \/ pc = "remove" /\ to_remove = <<>>
    /\ IF root_dir = RootGone
       THEN /\ pc' = "panic"
            /\ UNCHANGED lockfile
       ELSE /\ lockfile' = save(from_grunt(addons))
            /\ pc' = "saved"
    /\ UNCHANGED <<addons, root_dir, remote, conflicts, addons0, root0>>
    /\ UNCHANGED remove_vars
    /\ UNCHANGED resolve_vars
    /\ UNCHANGED update_vars

\* lib.rs 96-97: the first call of find_untracked
ResolveStart ==
    /\ UNCHANGED find_vars
    /\ pc = "resolve"
    /\ UNCHANGED remove_vars
    /\ untracked' = find_untracked(root_dir, addons)
    /\ new_addons' = <<>>
    /\ progress' = 1
    /\ pc' = "tsm"
    /\ UNCHANGED <<addons, lockfile, root_dir, remote, conflicts, addons0, root0,
                   dir_tree, to_parse, to_fingerprint, fingerprints, events,
                   dir_tree0, proposed, outdated, tmp_dir, fetched>>

\* lib.rs 99-122: the check for one of the two directories of
\* TradeSkillMaster; after the second, `untracked` is computed again
ResolveTsm ==
    /\ UNCHANGED find_vars
    /\ pc = "tsm"
    /\ UNCHANGED remove_vars
    /\ LET name == TsmNames[progress]
           version == get_toc_version(dir_tree[name])
           addon == IF progress = 1 THEN init_tsm(version.val)
                    ELSE init_tsm_helper(version.val)
           found == Contains(untracked, name) /\ root_dir[name].present
       IN  IF found /\ ~version.ok
           THEN /\ pc' = "panic"
                /\ UNCHANGED <<addons, events, untracked, progress>>
           ELSE /\ addons' = IF found THEN Append(addons, addon) ELSE addons
                /\ events' = IF found
                             THEN Append(events, NewAddon(name, desc_string(addon)))
                             ELSE events
                /\ IF progress < Len(TsmNames)
                   THEN /\ progress' = progress + 1
                        /\ UNCHANGED <<pc, untracked>>
                   ELSE /\ untracked' = find_untracked(root_dir, addons')
                        /\ progress' = 1
                        /\ pc' = "toc"
    /\ UNCHANGED <<lockfile, root_dir, remote, conflicts, addons0, root0,
                   dir_tree, new_addons, to_parse, to_fingerprint, fingerprints,
                   dir_tree0, proposed, outdated, tmp_dir, fetched>>

\* lib.rs 128-182: one turn of the loop over the untracked directories
ResolveToc ==
    /\ UNCHANGED find_vars
    /\ pc = "toc"
    /\ UNCHANGED remove_vars
    /\ progress <= Len(untracked)
    /\ LET dir == untracked[progress]
           r == TocAddon(dir, dir_tree[dir])
       IN  IF ~r.ok
           THEN /\ pc' = "panic"
                /\ UNCHANGED <<new_addons, events, progress>>
           ELSE /\ new_addons' = IF r.val.some THEN Append(new_addons, r.val.val)
                                 ELSE new_addons
                /\ events' = IF r.val.some
                             THEN Append(events, NewAddon(dir, desc_string(r.val.val)))
                             ELSE events
                /\ progress' = progress + 1
                /\ pc' = pc
    /\ UNCHANGED <<addons, lockfile, root_dir, remote, conflicts, addons0, root0,
                   dir_tree, untracked, to_parse, to_fingerprint, fingerprints,
                   dir_tree0, proposed, outdated, tmp_dir, fetched>>

\* lib.rs 183-184: the addons of the loop join the list, and `untracked` is
\* computed again
ResolveExtend ==
    /\ UNCHANGED find_vars
    /\ pc = "toc"
    /\ UNCHANGED remove_vars
    /\ progress > Len(untracked)
    /\ addons' = addons \o new_addons
    /\ untracked' = find_untracked(root_dir, addons')
    /\ pc' = "rules"
    /\ UNCHANGED <<lockfile, root_dir, remote, conflicts, addons0, root0,
                   dir_tree, new_addons, to_parse, to_fingerprint, fingerprints,
                   events, dir_tree0>>
    /\ UNCHANGED update_vars

\* a slip: a pattern that does not compile is passed over
CompileFails_CategoryOnly(fault) == fault = "bad_category"

\* lib.rs 616-634: the asserts on the category and the expects on the
\* patterns
CompileFails(fault) == fault \in {"bad_category", "bad_pattern"}

\* lib.rs 609-635: resolve_curse fetches the game info, asserts that the
\* category is the addon category and compiles its patterns; an assert
\* that fails and a pattern that does not compile panic
CompileRules ==
    /\ UNCHANGED find_vars
    /\ pc = "rules"
    /\ UNCHANGED remove_vars
    /\ IF CompileFails(remote.fault)
       THEN /\ pc' = "panic"
            /\ UNCHANGED <<fingerprints, fetched>>
       ELSE /\ fingerprints' = [k \in 1..Len(untracked) |-> None]
            /\ fetched' = [done |-> {}, panicked |-> {}]
            /\ pc' = "walk"
    /\ UNCHANGED <<addons, lockfile, root_dir, remote, conflicts, addons0, root0,
                   dir_tree, untracked, new_addons, to_parse, to_fingerprint,
                   events, dir_tree0, proposed, outdated, tmp_dir, progress>>

\* lib.rs 638-729: the par_iter task of the k-th untracked directory ends
WalkDir(k) ==
    /\ UNCHANGED find_vars
    /\ pc = "walk"
    /\ UNCHANGED remove_vars
    /\ k \in 1..Len(untracked)
    /\ k \notin fetched.done
    /\ \E r \in WalkOutcomes(dir_tree[untracked[k]]) :
         IF r.ok
         THEN /\ fingerprints' = StoreFingerprint(fingerprints, k, r.val)
              /\ fetched' = [fetched EXCEPT !.done = @ \cup {k}]
              /\ pc' = pc
         ELSE /\ pc' = "panic"
              /\ UNCHANGED <<fingerprints, fetched>>
    /\ UNCHANGED <<addons, lockfile, root_dir, remote, conflicts, addons0, root0,
                   dir_tree, untracked, new_addons, to_parse, to_fingerprint,
                   events, dir_tree0, proposed, outdated, tmp_dir, progress>>

\* lib.rs 732-746 and 187-199: the batch is looked up, every exact match is
\* mapped to an addon, the addons are reported and join the list, and the
\* directories still untracked are reported
MapMatches ==
    /\ UNCHANGED find_vars
    /\ pc = "walk"
    /\ UNCHANGED remove_vars
    /\ fetched.done = 1..Len(untracked)
    /\ LET batch == BatchValues(fingerprints)
           results == fingerprint_search(remote.catalog, batch)
           curse_addons == MatchAddons(results, batch, untracked)
       IN  IF remote.fault = "partial_match" \/ ~curse_addons.ok
           THEN /\ pc' = "panic"
                /\ UNCHANGED <<addons, events>>
           ELSE /\ addons' = addons \o curse_addons.val
                /\ events' =
                      events
                      \o [k \in 1..Len(curse_addons.val) |->
                             NewAddon(curse_addons.val[k].name,
                                      desc_string(curse_addons.val[k]))]
                      \o <<Finished(NotFound(root_dir, addons', untracked))>>
                /\ pc' = "check_conflicts"
    /\ UNCHANGED <<lockfile, root_dir, remote, conflicts, addons0, root0,
                   dir_tree, untracked, new_addons, to_parse, to_fingerprint,
                   fingerprints, dir_tree0>>
    /\ UNCHANGED update_vars

NextResolve ==
    \/ ResolveStart
    \/ ResolveTsm
    \/ ResolveToc
    \/ ResolveExtend
    \/ CompileRules
    \/ \E k \in 1..Len(ReadDirOrder) : WalkDir(k)
    \/ MapMatches
    \/ CheckConflictsCall
    \/ SaveLockfile

(***************************************************************************)
(* The states the resolve command starts in.                               *)
(***************************************************************************)
\* most exact matches of an answer of the fingerprint API
MaxMatches == 2

\* a descriptor that includes no file
TocFile(content, directives) ==
    FileOf(TRUE, FALSE, TRUE, <<>>, content, directives)

\* a directory whose only file is its descriptor
TocDir(content, directives) == DirFiles(TocFile(content, directives), None, None)

\* a directory that has no descriptor
NoTocDir ==
    [n \in {"Art.tga"} |-> FileOf(FALSE, TRUE, FALSE, <<>>, <<98>>, NoDirectives)]

\* the descriptors a directory named d may have: no directive, the
\* directives of a Tukui addon of one or two folders or of a folder list
\* without a name, a missing version, a missing folder list, an id that is
\* no number; or no descriptor at all
DescriptorDirs(d) ==
    {TocDir(<<97>>, dv) :
        dv \in {NoDirectives,
                Directives(Some(<<49>>), Some(<<d>>), Some(<<49>>)),
                Directives(Some(<<49>>), Some(<<"A", "B">>), Some(<<49>>)),
                Directives(Some(<<49>>), Some(<<>>), Some(<<49>>)),
                Directives(Some(<<49>>), Some(<<d>>), None),
                Directives(Some(<<49>>), None, Some(<<49>>)),
                Directives(Some(<<120>>), Some(<<d>>), Some(<<49>>))}}
    \cup {NoTocDir}

\* the directory of TradeSkillMaster: not there, or with a descriptor that
\* has a version line or none, or without a descriptor
TsmDirs ==
    {<<>>, TocDir(<<97>>, Directives(None, None, Some(<<49>>))),
     TocDir(<<97>>, NoDirectives), NoTocDir}

\* the fingerprints of the directories whose only file is a descriptor of
\* content 'a' and of content 'b', and a fingerprint no directory has
PrintA == U32(46456, 24229)
PrintB == U32(56637, 28409)
NoPrint == U32(0, 0)

\* the module lists of the files of the catalog: modules of "A" and of "B"
\* with the fingerprints of the contents 'a' and 'b', or with a fingerprint
\* no directory has
ModuleLists ==
    {<<>>,
     <<Module("A", PrintA)>>,
     <<Module("B", PrintB)>>,
     <<Module("B", PrintA)>>,
     <<Module("A", NoPrint)>>,
     <<Module("B", NoPrint), Module("A", PrintA)>>,
     <<Module("A", PrintA), Module("B", PrintB)>>,
     <<Module("B", PrintB), Module("A", NoPrint)>>}

\* the catalogs of at most MaxMatches files; the k-th is file 9 of project k
Catalogs ==
    UNION {{[k \in 1..n |-> AddonFingerprintInfo(k, 9, ms[k], PrintA)] :
               ms \in [1..n -> ModuleLists]} : n \in 0..MaxMatches}

\* the faults of the answers of the Curse API
Faults == {"none", "bad_category", "bad_pattern", "partial_match"}

\* the addon that owns "C" when the command starts
TrackedC == Addon("T", "Tukui", "2", <<49>>, <<"C">>)

\* the root whose directories have these files; a directory without a file
\* is not there
RootOf(trees) ==
    [d \in Range(ReadDirOrder) |-> IF trees[d] = <<>> THEN NoDir ELSE DirOf({0})]

TreesOf(a, b, c, tsm, helper) ==
    [d \in Range(ReadDirOrder) |->
        CASE d = "A" -> a [] d = "B" -> b [] d = "C" -> c
          [] d = "TradeSkillMaster" -> tsm [] OTHER -> helper]

\* what Grunt::new leaves when a resolve command starts
InitResolveWith(trees, lists, remotes) ==
    /\ dir_tree \in trees
    /\ dir_tree0 = dir_tree
    /\ root_dir = RootOf(dir_tree)
    /\ addons \in lists
    /\ lockfile = save(from_grunt(addons))
    /\ remote \in remotes
    /\ pc = "resolve"
    /\ proposed = <<>>
    /\ outdated = <<>>
    /\ tmp_dir = [i \in AddonIndexes |-> NoUnpacked]
    /\ fetched = [done |-> {}, panicked |-> {}]
    /\ progress = 0
    /\ conflicts = <<>>
    /\ addons0 = addons
    /\ root0 = root_dir
    /\ untracked = <<>>
    /\ new_addons = <<>>
    /\ to_parse = <<>>
    /\ to_fingerprint = {}
    /\ fingerprints = <<>>
    /\ events = <<>>
    /\ to_remove = <<>>
    /\ names0 = to_remove
    /\ NoFind

\* a catalog that knows the directory of content 'a' as project 1
OneProject ==
    <<AddonFingerprintInfo(1, 9, <<Module("A", PrintA)>>, PrintA)>>

\* directories whose descriptor includes nothing, a file in another case,
\* a file that is not there, or both; the file is there or is not
IncludeDirs ==
    {DirFiles(FileOf(TRUE, FALSE, TRUE, inc, <<97>>, NoDirectives), None, core) :
        inc \in {<<>>, <<"core.lua">>, <<"gone.lua">>, <<"core.lua", "gone.lua">>},
        core \in {None, Some(FileOf(FALSE, FALSE, TRUE, <<>>, <<99>>, NoDirectives))}}

InitResolve ==
    \* every descriptor of "A" and of "B", with and without TradeSkillMaster
    \/ InitResolveWith(
          {TreesOf(a, b, c, tsm, helper) :
              a \in DescriptorDirs("A"), b \in DescriptorDirs("B"),
              c \in {<<>>, TocDir(<<97>>, NoDirectives)},
              tsm \in TsmDirs, helper \in {<<>>, TocDir(<<97>>, Directives(None, None, Some(<<49>>)))}},
          {<<>>, <<TrackedC>>},
          {[fault |-> "none", catalog |-> OneProject]})
    \* every fault of the API
    \/ InitResolveWith(
          {TreesOf(a, b, <<>>, tsm, <<>>) :
              a \in {TocDir(<<97>>, NoDirectives),
                     TocDir(<<97>>, Directives(Some(<<49>>), Some(<<"A">>), Some(<<49>>)))},
              b \in {<<>>, TocDir(<<98>>, NoDirectives)},
              tsm \in {<<>>, TocDir(<<97>>, Directives(None, None, Some(<<49>>)))}},
          {<<>>},
          {[fault |-> f, catalog |-> OneProject] : f \in Faults})
    \* every catalog
    \/ InitResolveWith(
          {TreesOf(TocDir(<<97>>, NoDirectives), TocDir(cb, NoDirectives),
                   TocDir(<<97>>, NoDirectives), <<>>, <<>>) :
              cb \in {<<97>>, <<98>>}},
          {<<TrackedC>>},
          {[fault |-> "none", catalog |-> c] : c \in Catalogs})

    \* descriptors that include files
    \/ InitResolveWith(
          {TreesOf(a, b, <<>>, <<>>, <<>>) :
              a \in IncludeDirs,
              b \in {<<>>, TocDir(<<98>>, NoDirectives)} \cup IncludeDirs},
          {<<>>},
          {[fault |-> "none", catalog |-> OneProject]})

SpecResolve == InitResolve /\ [][NextResolve]_vars

(***************************************************************************)
(* The lockfile written and read again: lockfile.rs 15-30, lib.rs 35-62.   *)
(***************************************************************************)
\* lockfile.rs 15-19: Lockfile::from_file reads the fields AddonInfo declares
from_file(doc) ==
    [k \in 1..Len(doc) |-> [f \in AddonInfoFields |-> doc[k][f]]]

\* the versions an addon may have after it was read
LoadedVersions == VersionStrings \cup {<<>>}

\* addon.rs 18-26: Addon::from_info; line 23 reads info.version, which
\* AddonInfo does not declare and the file does not hold, so nothing of the
\* file determines the version
from_info(info) ==
    {Addon(info.name, info.addon_type, info.addon_id, v, info.dirs) :
        v \in LoadedVersions}

\* lib.rs 45-49: the addon lists Grunt::new may build from the file
LoadedLists(doc) ==
    LET infos == from_file(doc)
    IN  {as \in [1..Len(infos) -> UNION {from_info(infos[k]) : k \in 1..Len(infos)}] :
            \A k \in 1..Len(infos) : as[k] \in from_info(infos[k])}

\* lib.rs 35-62: Grunt::new of the next run reads the lockfile
GruntNew ==
    /\ UNCHANGED find_vars
    /\ pc = "saved"
    /\ UNCHANGED remove_vars
    /\ addons' \in LoadedLists(lockfile)
    /\ pc' = "loaded"
    /\ UNCHANGED <<lockfile, root_dir, remote, conflicts, addons0, root0>>
    /\ UNCHANGED resolve_vars
    /\ UNCHANGED update_vars

\* the lists that are saved: none, one addon of any source and version, or
\* two addons
SavedLists ==
    {<<>>} \cup VersionsLists
    \cup {<<Addon("P", "Curse", "1", <<57>>, <<"A", "B">>),
            Addon("Q", t, "2", <<49>>, <<"C">>)>> : t \in AddonType}

\* main is about to save the lockfile; none exists yet
InitLockfile ==
    /\ addons \in SavedLists
    /\ lockfile = <<>>
    /\ root_dir \in RootDirs0
    /\ remote = FixedRemote
    /\ pc = "checked"
    /\ proposed = <<>>
    /\ outdated = <<>>
    /\ tmp_dir = [i \in AddonIndexes |-> NoUnpacked]
    /\ fetched = [done |-> {}, panicked |-> {}]
    /\ progress = 0
    /\ conflicts = check_conflicts(addons)
    /\ addons0 = addons
    /\ root0 = root_dir
    /\ NoResolve
    /\ to_remove = <<>>
    /\ names0 = to_remove
    /\ NoFind

NextLockfile ==
    \/ SaveLockfile
    \/ GruntNew

SpecLockfile == InitLockfile /\ [][NextLockfile]_vars

(***************************************************************************)
(* The remove command: main.rs 135-169 and lib.rs 501-515.                 *)
(***************************************************************************)
\* a slip: only the first dir of the removed addon is deleted
RemoveAddonDirs_FirstOnly(root, dirs) ==
    IF dirs = <<>> THEN [ok |-> TRUE, root |-> root]
    ELSE IF Head(dirs) = "" THEN [ok |-> TRUE, root |-> RootGone]
    ELSE IF Head(dirs) \notin DOMAIN root \/ ~root[Head(dirs)].present
         THEN [ok |-> FALSE, root |-> root]
    ELSE [ok |-> TRUE, root |-> [root EXCEPT ![Head(dirs)] = NoDir]]

RECURSIVE RemoveAddonDirs(_, _)
\* lib.rs 511-513: remove_dir_all of every dir of the removed addon, in the
\* order of its dirs; the expect panics at a dir that is not there, with
\* the dirs before it deleted.  The path of a dir of the empty name is the
\* root itself
RemoveAddonDirs(root, dirs) ==
    IF dirs = <<>> THEN [ok |-> TRUE, root |-> root]
    ELSE IF root = RootGone THEN [ok |-> FALSE, root |-> root]
    ELSE IF Head(dirs) = "" THEN RemoveAddonDirs(RootGone, Tail(dirs))
    ELSE IF Head(dirs) \notin DOMAIN root \/ ~root[Head(dirs)].present
         THEN [ok |-> FALSE, root |-> root]
    ELSE RemoveAddonDirs([root EXCEPT ![Head(dirs)] = NoDir], Tail(dirs))

\* lib.rs 504-514: one turn of the loop of remove_addons: the first addon
\* of that name leaves the list and its dirs are deleted; it panics when no
\* addon has the name.  grunt.lockfile lies in the root and goes with it
RemoveAddon ==
    /\ UNCHANGED find_vars
    /\ pc = "remove"
    /\ to_remove # <<>>
    /\ LET name == Head(to_remove)
           addon_index == Position([k \in 1..Len(addons) |-> addons[k].name], name)
       IN  IF ~addon_index.some
           THEN /\ pc' = "panic"
                /\ UNCHANGED <<addons, root_dir, lockfile, to_remove>>
           ELSE LET r == RemoveAddonDirs(root_dir, addons[addon_index.val].dirs)
                IN  /\ addons' = SubSeq(addons, 1, addon_index.val - 1)
                                 \o SubSeq(addons, addon_index.val + 1, Len(addons))
                    /\ root_dir' = r.root
                    /\ lockfile' = IF r.root = RootGone THEN <<>> ELSE lockfile
                    /\ to_remove' = Tail(to_remove)
                    /\ pc' = IF r.ok THEN pc ELSE "panic"
    /\ UNCHANGED <<remote, conflicts, addons0, root0, names0>>
    /\ UNCHANGED resolve_vars
    /\ UNCHANGED update_vars

\* the names given to the remove command
RemoveNames == SeqsUpTo({"P", "Q", "X"}, 2)

\* what Grunt::new leaves when a remove command starts: two addons that own
\* any dirs, one of them maybe a dir of the empty name; resolve_curse names
\* an addon after the directory of its match, so both may have one name
InitRemove ==
    /\ addons \in {<<Addon("P", "Tukui", "1", <<49>>, d1),
                     Addon(n2, "Curse", "2", <<57>>, d2)>> :
                      d1 \in OwnedDirLists \cup {<<"">>}, d2 \in OwnedDirLists,
                      n2 \in {"P", "Q"}}
    /\ lockfile = save(from_grunt(addons))
    /\ root_dir \in RootDirs0
    /\ remote = FixedRemote
    /\ pc = "remove"
    /\ proposed = <<>>
    /\ outdated = <<>>
    /\ tmp_dir = [i \in AddonIndexes |-> NoUnpacked]
    /\ fetched = [done |-> {}, panicked |-> {}]
    /\ progress = 0
    /\ conflicts = <<>>
    /\ addons0 = addons
    /\ root0 = root_dir
    /\ NoResolve
    /\ to_remove \in RemoveNames
    /\ names0 = to_remove
    /\ NoFind

(***************************************************************************)
(* The rmdir command: main.rs 170-180 and lib.rs 517-528.                  *)
(***************************************************************************)
\* lib.rs 519: remove_dirs computes `untracked` once, before its loop
RemoveDirsStart ==
    /\ UNCHANGED find_vars
    /\ pc = "rmdir"
    /\ untracked' = find_untracked(root_dir, addons)
    /\ pc' = "rmdir_loop"
    /\ UNCHANGED <<addons, lockfile, root_dir, remote, conflicts, addons0, root0,
                   dir_tree, new_addons, to_parse, to_fingerprint, fingerprints,
                   events, dir_tree0>>
    /\ UNCHANGED remove_vars
    /\ UNCHANGED update_vars

\* lib.rs 521-527: one turn of the loop of remove_dirs: it panics when the
\* name is not in `untracked`, and the expect panics when the directory is
\* not there any more; else the directory is deleted
RemoveDir ==
    /\ UNCHANGED find_vars
    /\ pc = "rmdir_loop"
    /\ to_remove # <<>>
    /\ LET dir == Head(to_remove)
       IN  IF ~Contains(untracked, dir) \/ ~root_dir[dir].present
           THEN /\ pc' = "panic"
                /\ UNCHANGED <<root_dir, to_remove>>
           ELSE /\ root_dir' = remove_dir_all(root_dir, dir)
                /\ to_remove' = Tail(to_remove)
                /\ pc' = pc
    /\ UNCHANGED <<addons, lockfile, remote, conflicts, addons0, root0, names0>>
    /\ UNCHANGED resolve_vars
    /\ UNCHANGED update_vars

\* the names given to the rmdir command: directories of the root, a name
\* no directory has, the empty name
RmdirNames == SeqsUpTo({"A", "B", "C", "X", ""}, 2)

\* the roots of the rmdir command: "A" and "B" are there, "C" and the
\* directory of TradeSkillMaster are or are not
RmdirRoots ==
    {[d \in Range(ReadDirOrder) |-> IF d \in S THEN DirOf({0}) ELSE NoDir] :
        S \in {{"A", "B"} \cup T : T \in SUBSET {"C", "TradeSkillMaster"}}}

\* what Grunt::new leaves when a rmdir command starts
InitRmdir ==
    /\ addons \in {<<Addon("P", "Tukui", "1", <<49>>, d1),
                     Addon("Q", "Curse", "2", <<57>>, d2)>> :
                      d1 \in OwnedDirLists \cup {<<"">>}, d2 \in OwnedDirLists}
    /\ lockfile = save(from_grunt(addons))
    /\ root_dir \in RmdirRoots
    /\ remote = FixedRemote
    /\ pc = "rmdir"
    /\ proposed = <<>>
    /\ outdated = <<>>
    /\ tmp_dir = [i \in AddonIndexes |-> NoUnpacked]
    /\ fetched = [done |-> {}, panicked |-> {}]
    /\ progress = 0
    /\ conflicts = <<>>
    /\ addons0 = addons
    /\ root0 = root_dir
    /\ NoResolve
    /\ to_remove \in RmdirNames
    /\ names0 = to_remove
    /\ NoFind

NextRmdir ==
    \/ RemoveDirsStart
    \/ RemoveDir

SpecRmdir == InitRmdir /\ [][NextRmdir]_vars

(***************************************************************************)
(* One command, whichever: update, resolve, remove or rmdir.               *)
(***************************************************************************)
InitCommands ==
    \/ InitWith(DirsLists, {FixedRemote})
    \/ InitResolve
    \/ InitRemove
    \/ InitRmdir

NextCommands ==
    \/ Next
    \/ NextResolve
    \/ RemoveAddon
    \/ NextRmdir

SpecCommands == InitCommands /\ [][NextCommands]_vars

\* the remove command alone
NextRemove ==
    \/ RemoveAddon
    \/ SaveLockfile

SpecRemove == InitRemove /\ [][NextRemove]_vars

(***************************************************************************)
(* The claims.                                                             *)
(***************************************************************************)
\* the update of the addon at `index` is in the Vec check_update returned
Accepted(index) == \E k \in 1..Len(outdated) : outdated[k].index = index

\* the addon at `index` is in the Vec the Plan step computed
Proposed(index) == \E k \in 1..Len(proposed) : proposed[k].index = index

\* the names at the top level of unpacked<index>
StagedNames(index) ==
    {tmp_dir[index].entries[e].name : e \in 1..Len(tmp_dir[index].entries)}

\* the dirs of the addons that are not being updated, as the command found them
UntouchedOwned ==
    UNION {Range(addons0[i].dirs) : i \in {j \in 1..Len(addons0) : ~Accepted(j - 1)}}

\* the dirs of the addons that are being updated, as the command found them
AcceptedOwned ==
    UNION {Range(addons0[i].dirs) : i \in {j \in 1..Len(addons0) : Accepted(j - 1)}}

\* every task of the Fetch step has ended and the command has gone on
FetchOver == pc \notin {"start", "confirm", "fetch"}

StagedCollidesUntouched ==
    \E k \in 1..Len(outdated) : StagedNames(outdated[k].index) \cap UntouchedOwned # {}

StagedCollideEachOther ==
    \E k, l \in 1..Len(outdated) :
        k # l /\ StagedNames(outdated[k].index) \cap StagedNames(outdated[l].index) # {}

StagedHasFile ==
    \E k \in 1..Len(outdated) :
        \E e \in 1..Len(tmp_dir[outdated[k].index].entries) :
            tmp_dir[outdated[k].index].entries[e].is_file

NothingTouched == root_dir = root0 /\ addons = addons0

\* C1: when a directory name at the top level of a staged update is a
\* directory of an addon that is not being updated, the cycle has aborted
\* with every directory under the root, and every addon record, as it was
C1_AbortOnUntouchedDir ==
    (FetchOver /\ StagedCollidesUntouched) => (pc = "panic" /\ NothingTouched)

\* the cycle aborted for that reason alone
C1_Witness ==
    /\ pc = "panic"
    /\ StagedCollidesUntouched
    /\ fetched.panicked = {}
    /\ ~StagedHasFile
    /\ ~StagedCollideEachOther
    /\ \E d \in AcceptedOwned : root0[d].present

\* C2: when two staged updates of a cycle have the same directory name at
\* their top level, the cycle has aborted with every directory under the
\* root, and the version and dirs of every addon, as they were
C2_AbortOnDuplicateDir ==
    (FetchOver /\ StagedCollideEachOther) => (pc = "panic" /\ NothingTouched)

C2_Witness ==
    /\ pc = "panic"
    /\ StagedCollideEachOther
    /\ fetched.panicked = {}
    /\ ~StagedHasFile
    /\ ~StagedCollidesUntouched
    /\ \E d \in AcceptedOwned : root0[d].present

\* the update at position k of `outdated` was fetched, and its package
\* would pass the checks of the Validate step
FetchedValid(k) ==
    /\ k \in fetched.done \ fetched.panicked
    /\ tmp_dir[outdated[k].index].present
    /\ \A e \in 1..Len(tmp_dir[outdated[k].index].entries) :
          ~tmp_dir[outdated[k].index].entries[e].is_file
    /\ StagedNames(outdated[k].index) \cap UntouchedOwned = {}
    /\ StagedNames(outdated[k].index) \cap AcceptedOwned = {}

\* C3 as claimed: when the command has ended and the fetch of one accepted
\* update failed, every other accepted update has been finalized
C3_FailureIsolated ==
    (pc \in {"done", "panic"} /\ fetched.panicked # {}) =>
        \A k \in 1..Len(outdated) :
            FetchedValid(k) =>
                Get(addons, outdated[k].index).version = outdated[k].new_version

\* C3 as amended: once the fetch of an accepted update has failed and the
\* Fetch step is over, the cycle has aborted with every directory under the
\* root, and every addon record, as it was
C3_FailureAbortsCycle ==
    (FetchOver /\ fetched.panicked # {}) => (pc = "panic" /\ NothingTouched)

\* one update failed and another was fetched and would have passed the checks
C3_Witness ==
    /\ pc = "panic"
    /\ Cardinality(fetched.panicked) = 1
    /\ \E k \in 1..Len(outdated) : FetchedValid(k)

\* C4: when the update command has ended, the lockfile holds the records of
\* the addon list
C4_ManifestPersisted ==
    pc = "done" => lockfile = save(from_grunt(addons))

\* the update at position k of `proposed` is for the addon at `index`
ProposedFor(index) ==
    proposed[CHOOSE k \in 1..Len(proposed) : proposed[k].index = index]

\* C5: after a cycle that completes, an addon of the accepted set has for
\* dirs the names at the top level of its staging directory, all of them
\* directories, and for version the version the Plan step fetched; every
\* other field, and every other addon, is as it was
C5_FinalizedRecords ==
    pc = "done" =>
        \A i \in 1..Len(addons) :
            IF Accepted(i - 1)
            THEN /\ addons[i].dirs =
                       [e \in 1..Len(tmp_dir[i - 1].entries) |->
                          tmp_dir[i - 1].entries[e].name]
                 /\ \A e \in 1..Len(tmp_dir[i - 1].entries) :
                       ~tmp_dir[i - 1].entries[e].is_file
                 /\ addons[i].version = ProposedFor(i - 1).new_version
                 /\ addons[i].name = addons0[i].name
                 /\ addons[i].addon_type = addons0[i].addon_type
                 /\ addons[i].addon_id = addons0[i].addon_id
            ELSE addons[i] = addons0[i]

\* a cycle completed that changed the dirs and the version of one addon and
\* left another addon alone
C5_Witness ==
    /\ pc = "done"
    /\ \E i, j \in 1..Len(addons) :
          /\ Accepted(i - 1) /\ ~Accepted(j - 1)
          /\ addons[i].dirs # addons0[i].dirs
          /\ addons[i].version # addons0[i].version

\* the tree of a package has been written under the root
Installed == \E d \in DirNames : root_dir[d].files \ {0} # {}

\* C6: when a staged directory has been installed, nothing is left of what
\* the directories of the addons being updated held before; and when a
\* directory under the root has been deleted or written, the checks of the
\* Validate step had passed for the whole batch
C6_DeleteBeforeInstall ==
    /\ Installed => \A d \in AcceptedOwned : 0 \notin root_dir[d].files
    /\ root_dir # root0 =>
          /\ pc \in {"delete", "copy", "finalize", "done"}
          /\ fetched.done = 1..Len(outdated) /\ fetched.panicked = {}
          /\ ~StagedHasFile /\ ~StagedCollideEachOther /\ ~StagedCollidesUntouched

\* the loop that copies is running, after old dirs were deleted
C6_Witness ==
    /\ pc = "copy" /\ progress = 1
    /\ Installed
    /\ \E d \in AcceptedOwned : root0[d].present /\ ~root_dir[d].present

\* the addon at `index` was proposed by the Plan step and removed by the gate
GateRemoved(index) == FetchOver /\ Proposed(index) /\ ~Accepted(index)

LatestTukuiVersion(addon) ==
    IF addon.addon_id = "-2" THEN remote.elvui.version
    ELSE remote.tukui[addon.addon_id].version

\* a is greater than b, byte by byte, a longer string being greater than
\* its prefix
LexGreater(a, b) ==
    \E p \in 1..Len(a) :
        /\ \A q \in 1..(p - 1) : q <= Len(b) /\ a[q] = b[q]
        /\ p > Len(b) \/ a[p] > b[p]

\* C8 as claimed: the Plan step puts a Tukui addon in the candidate set if
\* and only if the latest version string differs from the stored one
C8_CandidateIffDiffers ==
    pc = "confirm" =>
        \A i \in 1..Len(addons) :
            addons[i].addon_type = "Tukui" =>
                (Proposed(i - 1) <=> LatestTukuiVersion(addons[i]) # addons[i].version)

\* C8 as amended: if and only if the latest version string is greater than
\* the stored one, byte by byte; an addon of the TSM source is never put in
C8_CandidateIffGreater ==
    pc = "confirm" =>
        \A i \in 1..Len(addons) :
            /\ addons[i].addon_type = "Tukui" =>
                  /\ Proposed(i - 1) <=>
                        LexGreater(LatestTukuiVersion(addons[i]), addons[i].version)
                  /\ Proposed(i - 1) =>
                        ProposedFor(i - 1).new_version = LatestTukuiVersion(addons[i])
            /\ addons[i].addon_type = "TSM" => ~Proposed(i - 1)

\* the latest version differs from the stored one, is longer and is not
\* greater, and the addon is no candidate
C8_Witness ==
    /\ pc = "confirm"
    /\ \E i \in 1..Len(addons) :
          /\ addons[i].addon_type = "Tukui"
          /\ LatestTukuiVersion(addons[i]) # addons[i].version
          /\ Len(LatestTukuiVersion(addons[i])) > Len(addons[i].version)
          /\ ~Proposed(i - 1)

\* the ids of the retail files the Curse API lists for an addon
RetailIds(addon) ==
    {f.id : f \in {g \in remote.curse[addon.addon_id] :
                      g.game_version_flavor = "wow_retail"}}

\* C9: the Plan step puts a Curse addon in the candidate set if and only if
\* the highest id among its retail files is greater, as a number, than its
\* stored version; the candidate carries that id as new_version
C9_CandidateIffHigherId ==
    pc = "confirm" =>
        \A i \in 1..Len(addons) :
            addons[i].addon_type = "Curse" =>
                \E m \in RetailIds(addons[i]) :
                    /\ \A n \in RetailIds(addons[i]) : n <= m
                    /\ Proposed(i - 1) <=> m > ParseI64(addons[i].version)
                    /\ Proposed(i - 1) =>
                          /\ ParseI64(ProposedFor(i - 1).new_version) = m
                          /\ ProposedFor(i - 1).new_version[1] # 48

\* a candidate whose stored version is the greater string and the smaller
\* number, with a file for another flavor whose id is higher still
C9_Witness ==
    /\ pc = "confirm"
    /\ \E i \in 1..Len(addons) :
          /\ addons[i].addon_type = "Curse"
          /\ Proposed(i - 1)
          /\ \E f \in remote.curse[addons[i].addon_id] :
                \A n \in RetailIds(addons[i]) : f.id > n

\* how many times x is in the Vec s
Occurrences(s, x) == Cardinality({k \in 1..Len(s) : s[k] = x})

\* every Conflict returned is for a pair i < j and a dir of both addons
ConflictsAreShared ==
    \A k \in 1..Len(conflicts) :
        /\ conflicts[k].addon_a_index \in 0..(Len(addons) - 1)
        /\ conflicts[k].addon_b_index \in 0..(Len(addons) - 1)
        /\ conflicts[k].addon_a_index < conflicts[k].addon_b_index
        /\ Contains(Get(addons, conflicts[k].addon_a_index).dirs, conflicts[k].dir)
        /\ Contains(Get(addons, conflicts[k].addon_b_index).dirs, conflicts[k].dir)

\* C10 as claimed: check_conflicts returns one Conflict (i, j, dir) for
\* every pair i < j and every dir of both, and nothing else, and leaves the
\* addon list and the disk alone
C10_OneConflictPerSharedDir ==
    pc = "checked" =>
        /\ \A i, j \in 0..(Len(addons) - 1) : \A d \in {"A", "B"} :
              (i < j /\ Contains(Get(addons, i).dirs, d) /\ Contains(Get(addons, j).dirs, d))
                  => Occurrences(conflicts, Conflict(i, j, d)) = 1
        /\ ConflictsAreShared
        /\ addons = addons0 /\ root_dir = root0

\* C10 as amended: one Conflict (i, j, dir) for each time dir is in the
\* dirs of addon i, so exactly one when addon i does not list dir twice
C10_OneConflictPerListedDir ==
    pc = "checked" =>
        /\ \A i, j \in 0..(Len(addons) - 1) : \A d \in {"A", "B"} :
              (i < j /\ Contains(Get(addons, j).dirs, d))
                  => Occurrences(conflicts, Conflict(i, j, d)) =
                        Occurrences(Get(addons, i).dirs, d)
        /\ ConflictsAreShared
        /\ addons = addons0 /\ root_dir = root0

\* three addons: a dir listed twice by the first gives two equal conflicts
\* with the second, a dir listed once gives one conflict with the third
C10_Witness ==
    /\ pc = "checked"
    /\ Len(addons) = 3
    /\ \E d \in {"A", "B"} : Occurrences(conflicts, Conflict(0, 1, d)) = 2
    /\ \E d \in {"A", "B"} : Occurrences(conflicts, Conflict(1, 2, d)) = 1

\* the fingerprint the walk over directory "A" ended with
WalkFingerprint == fingerprints[Len(fingerprints)]

\* C13: the fingerprint of a directory is the same for every order in which
\* the files of to_fingerprint are enumerated
C13_OrderIrrelevant ==
    pc = "hashed" =>
        \A order \in Orders(to_fingerprint) :
            WalkFingerprint = AggregateFingerprint(dir_tree["A"], order)

\* three files were hashed, and the fingerprints of two of them, taken in
\* the order glob yields the files, are not ascending
C13_Witness ==
    /\ pc = "hashed"
    /\ Cardinality(to_fingerprint) = 3
    /\ \E f, g \in to_fingerprint :
          /\ \E i, j \in 1..Len(GlobOrder) : i < j /\ GlobOrder[i] = f /\ GlobOrder[j] = g
          /\ LessU32(FileFingerprint(dir_tree["A"][g]), FileFingerprint(dir_tree["A"][f]))

\* C14: whitespace bytes inserted into the files change neither the
\* fingerprint of a file nor the fingerprint of the directory
C14_WhitespaceIrrelevant ==
    pc = "hashed" =>
        /\ \A f \in to_fingerprint :
              FileFingerprint(dir_tree["A"][f]) = FileFingerprint(dir_tree0["A"][f])
        /\ \E order \in Orders(to_fingerprint) :
              WalkFingerprint = AggregateFingerprint(dir_tree0["A"], order)

\* a tab, a space, a CR or a LF was inserted into a file that was hashed
C14_Witness ==
    /\ pc = "hashed"
    /\ \E f \in to_fingerprint : \E b \in Whitespace :
          \E p \in 1..Len(dir_tree["A"][f].content) :
              /\ dir_tree["A"][f].content[p] = b
              /\ dir_tree["A"][f].content = InsertAt(dir_tree0["A"][f].content, p, b)
    /\ \E f \in to_fingerprint : 9 \in Range(dir_tree0["A"][f].content)

\* resolve has returned to main
ResolveReturned == pc \in {"check_conflicts", "checked", "saved"}

\* every task of the par_iter of resolve_curse has ended with a fingerprint
\* and the API answers without a fault
BatchComplete ==
    /\ pc \notin {"resolve", "tsm", "toc", "rules"}
    /\ remote.fault = "none"
    /\ Len(fingerprints) = Len(untracked)
    /\ \A k \in 1..Len(fingerprints) : fingerprints[k].some

\* the exact matches the API answers the batch with
ExactMatches == fingerprint_search(remote.catalog, BatchValues(fingerprints))

\* the addons that joined the list after the addons of the descriptors
CurseAddons ==
    SubSeq(addons, Len(addons) - Len(ExactMatches) + 1, Len(addons))

\* the addons that joined the list before resolve_curse was called
EarlierAddons ==
    Len(SelectSeq(addons, LAMBDA a : a.addon_type = "TSM"))
    - Len(SelectSeq(addons0, LAMBDA a : a.addon_type = "TSM"))
    + Len(new_addons)

\* the fingerprint of the last module of the file of a match
LastPrint(mat) == mat.file.modules[Len(mat.file.modules)].fingerprint

\* the file of the match lists a module, and the fingerprint of the last
\* one is in the batch
Mappable(mat) ==
    /\ mat.file.modules # <<>>
    /\ Contains(BatchValues(fingerprints), LastPrint(mat))

\* the first position of the batch that holds fingerprint x
FirstIndex(x) ==
    CHOOSE i \in 1..Len(fingerprints) :
        /\ fingerprints[i].val = x
        /\ \A j \in 1..(i - 1) : fingerprints[j].val # x

\* the fingerprint at position k of the batch is one the walk over the
\* k-th untracked directory can end with
BatchInOrder ==
    pc \in {"walk", "panic", "check_conflicts", "checked", "saved"} =>
        \A k \in 1..Len(fingerprints) :
            fingerprints[k].some =>
                Returned(fingerprints[k].val) \in WalkOutcomes(dir_tree[untracked[k]])

\* C11 as stated: every exact match produces one addon, named after an
\* untracked directory whose fingerprint is that of the last module of the
\* match; position i of the batch holds the fingerprint of the i-th
\* untracked directory
C11_EveryMatchMapped ==
    /\ BatchInOrder
    /\ (BatchComplete /\ pc # "walk") =>
          /\ ResolveReturned
          /\ \A k \in 1..Len(ExactMatches) :
                /\ Mappable(ExactMatches[k])
                /\ \E i \in 1..Len(untracked) :
                      /\ fingerprints[i].val = LastPrint(ExactMatches[k])
                      /\ CurseAddons[k].name = untracked[i]

\* C11: position i of the batch holds the fingerprint of the i-th untracked
\* directory, in whatever order the tasks end.  When the file of every
\* exact match lists a module and the fingerprint of its last module is in
\* the batch, the k-th match produces the k-th new addon, named after the
\* first untracked directory that has this fingerprint; when some match is
\* not so, resolve panics and no match produces an addon
C11_MatchMapping ==
    /\ BatchInOrder
    /\ (BatchComplete /\ pc # "walk") =>
          IF \A k \in 1..Len(ExactMatches) : Mappable(ExactMatches[k])
          THEN /\ ResolveReturned
               /\ \A k \in 1..Len(ExactMatches) :
                     CurseAddons[k] =
                        from_curse_info(untracked[FirstIndex(LastPrint(ExactMatches[k]))],
                                        ExactMatches[k])
               /\ Len(addons) = Len(addons0) + EarlierAddons + Len(ExactMatches)
          ELSE /\ pc = "panic"
               /\ Len(addons) = Len(addons0) + EarlierAddons

\* two directories of different fingerprints were walked, and both matches
\* of the answer were mapped to addons
C11_Witness ==
    /\ pc = "saved"
    /\ Len(untracked) = 2
    /\ fingerprints[1].val # fingerprints[2].val
    /\ Len(ExactMatches) = 2
    /\ CurseAddons[1].name # CurseAddons[2].name

\* the last event resolve reported
LastEvent == events[Len(events)]

\* the top-level directories under the root that no addon of the list owns
Unowned ==
    {d \in Range(ReadDirOrder) :
        /\ root_dir[d].present
        /\ \A k \in 1..Len(addons) : ~Contains(addons[k].dirs, d)}

\* an exact match of the answer carries fingerprint x
PrintMatched(x) ==
    \E k \in 1..Len(ExactMatches) :
        \/ \E j \in 1..Len(ExactMatches[k].file.modules) :
              ExactMatches[k].file.modules[j].fingerprint = x
        \/ /\ ExactMatches[k].file.modules = <<>>
           /\ ExactMatches[k].file.package_fingerprint = x

\* the not_found list of the Finished event is the set of the top-level
\* directories that no addon owns
NotFoundIsUnowned ==
    ResolveReturned =>
        /\ LastEvent.type = "Finished"
        /\ Range(LastEvent.not_found) = Unowned
        /\ NoRepeat(LastEvent.not_found)

\* C12 as stated: besides, every directory of the batch whose fingerprint
\* no exact match carries is in the not_found list
C12_UnmatchedReported ==
    /\ NotFoundIsUnowned
    /\ ResolveReturned =>
          \A i \in 1..Len(untracked) :
              ~PrintMatched(fingerprints[i].val) =>
                  Contains(LastEvent.not_found, untracked[i])

\* C12: after resolve, the not_found list of the Finished event is the set
\* of the top-level directories under the root that no addon of the list
\* owns; a directory of the batch whose fingerprint no exact match carries
\* is in it unless the module list of an exact match names it
C12_NotFoundExact ==
    /\ NotFoundIsUnowned
    /\ ResolveReturned =>
          \A i \in 1..Len(untracked) :
              ~PrintMatched(fingerprints[i].val) =>
                  \/ Contains(LastEvent.not_found, untracked[i])
                  \/ \E k \in 1..Len(CurseAddons) :
                        Contains(CurseAddons[k].dirs, untracked[i])

\* one directory of the batch was matched and became an addon, and another,
\* whose fingerprint no match carries, was reported
C12_Witness ==
    /\ ResolveReturned
    /\ Len(ExactMatches) >= 1
    /\ \E i \in 1..Len(untracked) :
          /\ ~PrintMatched(fingerprints[i].val)
          /\ Contains(LastEvent.not_found, untracked[i])

\* the descriptor of top-level directory d is there
HasToc(d) == TocName \in DOMAIN dir_tree[d]

\* the top-level directories that no addon owned when the command started
Untracked0 ==
    {d \in Range(ReadDirOrder) :
        /\ root_dir[d].present
        /\ \A k \in 1..Len(addons0) : ~Contains(addons0[k].dirs, d)}

\* the loop over the untracked directories has stopped at a directory whose
\* descriptor is missing
StoppedAtMissingToc ==
    /\ pc = "panic"
    /\ fingerprints = <<>>
    /\ progress \in 1..Len(untracked)
    /\ ~HasToc(untracked[progress])

\* C15: resolve does not go past an untracked directory whose descriptor is
\* missing: the loop does not skip it, resolve_curse is not reached, the
\* lockfile is not written, and when the loop stops at it no addon has been
\* created for it or for a directory after it
C15_MissingDescriptorFatal ==
    /\ pc = "toc" => \A j \in 1..(progress - 1) : HasToc(untracked[j])
    /\ pc \in {"rules", "walk", "check_conflicts", "checked", "saved"} =>
          \A d \in Untracked0 : HasToc(d)
    /\ (\E d \in Untracked0 : ~HasToc(d)) => lockfile = save(from_grunt(addons0))
    /\ StoppedAtMissingToc =>
          /\ \A k \in 1..Len(new_addons) :
                \E j \in 1..(progress - 1) : new_addons[k].name = untracked[j]
          /\ \A k \in 1..Len(addons) :
                \A j \in progress..Len(untracked) : addons[k].name # untracked[j]

\* the loop made an addon of the first directory and stopped at the second,
\* which has no descriptor
C15_Witness ==
    /\ StoppedAtMissingToc
    /\ progress = 2
    /\ Len(new_addons) = 1

\* the descriptors of the directories that were untracked at the start let
\* resolve reach resolve_curse
DescriptorsFine ==
    \A d \in Untracked0 :
        IF Contains(TsmNames, d) THEN get_toc_version(dir_tree[d]).ok
        ELSE TocAddon(d, dir_tree[d]).ok

\* resolve_curse has panicked on a pattern that does not compile
PatternPanic ==
    /\ remote.fault = "bad_pattern"
    /\ pc = "panic"
    /\ DescriptorsFine

\* with a pattern that does not compile no directory is fingerprinted, no
\* addon is made from the catalog and the lockfile is not written
NothingFingerprinted ==
    remote.fault = "bad_pattern" =>
        /\ pc \notin {"walk", "check_conflicts", "checked", "saved"}
        /\ fingerprints = <<>>
        /\ lockfile = save(from_grunt(addons0))
        /\ \A k \in 1..Len(addons) :
              addons[k].addon_type = "Curse" => k <= Len(addons0)

\* C16 as stated: besides, the addon list is as it was at the start
C16_NothingRemains ==
    /\ NothingFingerprinted
    /\ PatternPanic => addons = addons0

\* C16: when a pattern of the catalog does not compile, resolve panics in
\* resolve_curse: no directory is fingerprinted, no addon is made from the
\* catalog and the lockfile is not written; the addons that the
\* TradeSkillMaster check and the descriptors gave are in the addon list and
\* have been reported
C16_BadPatternAborts ==
    /\ NothingFingerprinted
    /\ PatternPanic =>
          /\ Len(addons) = Len(addons0) + EarlierAddons
          /\ SubSeq(addons, 1, Len(addons0)) = addons0
          /\ SubSeq(addons, Len(addons) - Len(new_addons) + 1, Len(addons)) = new_addons
          /\ Len(events) = EarlierAddons
          /\ \A k \in 1..Len(events) :
                /\ events[k].type = "NewAddon"
                /\ events[k].name = addons[Len(addons0) + k].name

\* a pattern did not compile after the TradeSkillMaster check and a
\* descriptor each gave an addon
C16_Witness ==
    /\ PatternPanic
    /\ Len(new_addons) = 1
    /\ Len(addons) = Len(addons0) + 2

\* C17: the addon list that is read from a lockfile is the list that was
\* saved to it: the same records in the same order, every field equal
C17_RoundTrip ==
    pc = "loaded" => addons = addons0

\* C19: when the top level of the unpacked package of an accepted update
\* holds a regular file, the cycle has aborted and every directory under
\* the root is as it was: none was deleted, none was written
C19_FileAbortsBeforeChange ==
    (FetchOver /\ StagedHasFile) => (pc = "panic" /\ root_dir = root0)

\* the cycle aborted for the file alone, and the updated addon owns a
\* directory that is there
C19_Witness ==
    /\ pc = "panic"
    /\ StagedHasFile
    /\ fetched.panicked = {}
    /\ ~StagedCollidesUntouched
    /\ ~StagedCollideEachOther
    /\ \E d \in AcceptedOwned : root0[d].present

\* the descriptor of directory d has no version line, and the source of the
\* addon it describes needs the version: d is a directory of
\* TradeSkillMaster, or the descriptor has a Tukui id and a folder list
VersionMissing(d) ==
    /\ HasToc(d)
    /\ ~dir_tree[d][TocName].directives.version.some
    /\ \/ Contains(TsmNames, d)
       \/ /\ dir_tree[d][TocName].directives.tukui_id.some
          /\ ParseOk(dir_tree[d][TocName].directives.tukui_id.val)
          /\ dir_tree[d][TocName].directives.tukui_dirs.some

\* resolve has panicked in the check for a directory of TradeSkillMaster
TsmPanic ==
    /\ pc = "panic"
    /\ \E k \in 1..Len(untracked) : Contains(TsmNames, untracked[k])

\* resolve has panicked in the loop over the untracked directories
LoopPanic ==
    /\ pc = "panic"
    /\ fingerprints = <<>>
    /\ progress \in 1..Len(untracked)
    /\ \A k \in 1..Len(untracked) : ~Contains(TsmNames, untracked[k])

\* C20 as stated: the program does not crash on a descriptor that has no
\* version line where the source needs one
C20_NoCrashOnMissingVersion ==
    /\ TsmPanic => ~VersionMissing(TsmNames[progress])
    /\ LoopPanic => ~VersionMissing(untracked[progress])

\* C20: resolve does not go past an untracked directory whose descriptor
\* has no version line where the source needs one: it panics there, no
\* addon is made of the directory, and the lockfile is not written
C20_MissingVersionPanics ==
    /\ pc = "toc" =>
          /\ \A j \in 1..(progress - 1) : ~VersionMissing(untracked[j])
          /\ \A d \in Untracked0 : Contains(TsmNames, d) => ~VersionMissing(d)
    /\ pc \in {"rules", "walk", "check_conflicts", "checked", "saved"} =>
          \A d \in Untracked0 : ~VersionMissing(d)
    /\ \A d \in Untracked0 :
          VersionMissing(d) =>
              /\ lockfile = save(from_grunt(addons0))
              /\ \A k \in 1..Len(addons) : addons[k].name # d
              /\ \A k \in 1..Len(new_addons) : new_addons[k].name # d

\* the loop made an addon of the first directory and panicked at the
\* second, whose descriptor has a Tukui id and a folder list and no version
C20_Witness ==
    /\ LoopPanic
    /\ progress = 2
    /\ Len(new_addons) = 1
    /\ VersionMissing(untracked[2])

RemoveReturned == pc = "remove" /\ to_remove = <<>> /\ names0 # <<>>

\* the directory of that name is there under the root; the path of the
\* empty name is the root itself
DirExists(root, d) ==
    /\ root # RootGone
    /\ d = "" \/ (d \in DOMAIN root /\ root[d].present)

\* the names of the addons of a list, in order
NamesOf(as) == [k \in 1..Len(as) |-> as[k].name]

\* the list without the addon at position i
WithoutAt(as, i) == SubSeq(as, 1, i - 1) \o SubSeq(as, i + 1, Len(as))

RECURSIVE FirstsOf(_, _)
\* the addons a call with these names takes from the list: for each name
\* in turn, the first addon of the list of then that has the name
FirstsOf(as, names) ==
    IF names = <<>> THEN <<>>
    ELSE LET i == Position(NamesOf(as), Head(names))
         IN  IF ~i.some THEN <<>>
             ELSE <<as[i.val]>> \o FirstsOf(WithoutAt(as, i.val), Tail(names))

RECURSIVE RestOf(_, _)
\* the list such a call leaves
RestOf(as, names) ==
    IF names = <<>> THEN as
    ELSE LET i == Position(NamesOf(as), Head(names))
         IN  IF ~i.some THEN as
             ELSE RestOf(WithoutAt(as, i.val), Tail(names))

\* the dirs the addons of a list own
DirsOf(as) == UNION {Range(as[k].dirs) : k \in 1..Len(as)}

RmdirReturned == pc = "rmdir_loop" /\ to_remove = <<>>

\* the directories of the root that are not as they were at the start
ChangedDirs == {d \in DOMAIN root0 : root_dir[d] # root0[d]}

\* C22: remove_dirs deletes a top-level directory only if it is
\* untracked: whatever the names, a directory that a tracked addon owns is
\* never deleted, and a call that names a tracked directory fails
C22_OnlyUntrackedDeleted ==
    /\ root_dir # RootGone
    /\ ChangedDirs \subseteq Range(find_untracked(root0, addons0)) \cap Range(names0)
    /\ ChangedDirs \cap DirsOf(addons0) = {}
    /\ RmdirReturned => Range(names0) \cap DirsOf(addons0) = {}
    /\ (pc = "rmdir_loop" /\ to_remove # <<>> /\ Head(to_remove) \in DirsOf(addons0))
          => ~ENABLED (RemoveDir /\ pc' # "panic")

\* the call has deleted an untracked directory and then stopped at the name
\* of a directory an addon owns, which is still there
C22_Witness ==
    /\ pc = "panic"
    /\ ChangedDirs # {}
    /\ to_remove # <<>>
    /\ Head(to_remove) \in DirsOf(addons0)
    /\ root_dir[Head(to_remove)].present

\* the loop that drains to_parse has ended, by its condition or by a panic
DrainOver == pc = "hashed" \/ pc = "panic" \/ (pc = "parse" /\ to_parse = <<>>)

\* C23: the drain of the parse queue of the fingerprint walk terminates for
\* every finite directory, also when files include each other in a cycle
C23_DrainTerminates == <>DrainOver

\* the positions of the batch that hold the fingerprint of the last module
\* of the only exact match
SamePrint ==
    {i \in 1..Len(fingerprints) : fingerprints[i].val = LastPrint(ExactMatches[1])}

\* two untracked directories have one fingerprint, and the API answers the
\* batch with one exact match, for that fingerprint
DuplicateMatched ==
    /\ BatchComplete
    /\ pc # "walk"
    /\ Len(ExactMatches) = 1
    /\ ExactMatches[1].file.modules # <<>>
    /\ Cardinality(SamePrint) >= 2

\* C24 as stated: then resolve does not fail, the match goes to the first
\* of the two directories in discovery order, and the other stays
\* untracked
C24_OtherStaysUntracked ==
    DuplicateMatched =>
        LET first == FirstIndex(LastPrint(ExactMatches[1]))
        IN  /\ ResolveReturned
            /\ CurseAddons[1].name = untracked[first]
            /\ \A j \in SamePrint \ {first} :
                  /\ untracked[j] \in Unowned
                  /\ Contains(LastEvent.not_found, untracked[j])

\* C24: then resolve does not fail, and the match makes one addon that has
\* the name of the first of the two directories in discovery order and
\* owns the directories the module list of the match names; each of the
\* two directories stays untracked exactly when that list does not name it
C24_FirstNamed ==
    DuplicateMatched =>
        LET first == FirstIndex(LastPrint(ExactMatches[1]))
        IN  /\ ResolveReturned
            /\ CurseAddons[1] = from_curse_info(untracked[first], ExactMatches[1])
            /\ \A j \in SamePrint :
                  /\ untracked[j] \in Unowned
                        <=> ~Contains(CurseAddons[1].dirs, untracked[j])
                  /\ Contains(LastEvent.not_found, untracked[j])
                        <=> untracked[j] \in Unowned

\* "A" and "B" have one fingerprint; the match made an addon named "A" that
\* owns "A", and "B" is reported as not found
C24_Witness ==
    /\ DuplicateMatched
    /\ pc = "saved"
    /\ SamePrint = {1, 2}
    /\ CurseAddons[1].name = untracked[1]
    /\ CurseAddons[1].dirs = <<untracked[1]>>
    /\ Contains(LastEvent.not_found, untracked[2])

\* the files of the directory that is walked
WalkedFiles == dir_tree[untracked[1]]

\* the files whose path matches the initial-inclusion pattern, and those
\* whose path matches the extra-inclusion pattern and not the initial one
InitialIn(files) == {n \in DOMAIN files : files[n].initial}
ExtraIn(files) == {n \in DOMAIN files : ~files[n].initial /\ files[n].extra}
InitialFiles == InitialIn(WalkedFiles)
ExtraFiles == ExtraIn(WalkedFiles)

\* the files an include of path `inc` may be resolved to
ResolvesTo(files, inc) ==
    IF inc \in DOMAIN files THEN {inc}
    ELSE {n \in DOMAIN files : Lower(n) = Lower(inc)}

\* the includes of the files of S that are parsed by a rule
IncludesOf(files, S) ==
    {files[x[1]].includes[x[2]] :
        x \in {y \in S \X (1..Len(GlobOrder)) :
                 /\ files[y[1]].has_rule
                 /\ y[2] <= Len(files[y[1]].includes)}}

\* S and the files that the files of S include
WithIncluded(files, S) ==
    S \cup UNION {ResolvesTo(files, inc) : inc \in IncludesOf(files, S)}

\* the files the parsing can reach from the files of the initial pattern; a
\* directory has at most Len(GlobOrder) files
ReachedIn(files) ==
    WithIncluded(files, WithIncluded(files, WithIncluded(files, InitialIn(files))))
ReachedFiles == ReachedIn(WalkedFiles)

\* C25: of the files glob yields, one that matches the initial-inclusion
\* pattern is queued for parsing, and is put in to_fingerprint when it is
\* dequeued; otherwise one that matches the extra-inclusion pattern is put
\* in to_fingerprint without being parsed; one that matches neither is in
\* neither set unless an include reaches it
C25_Classified ==
    /\ [][Glob =>
            /\ to_parse' = SelectSeq(GlobOrder, LAMBDA n : n \in InitialFiles)
            /\ to_fingerprint' = ExtraFiles]_vars
    /\ [](pc = "parse" =>
            /\ Range(to_parse) \subseteq ReachedFiles
            /\ ExtraFiles \subseteq to_fingerprint
            /\ to_fingerprint \subseteq ExtraFiles \cup ReachedFiles)
    /\ [](pc = "hashed" => to_fingerprint = ExtraFiles \cup ReachedFiles)

\* the walk has ended: a file that matches both patterns was parsed, a file
\* that matches the extra pattern alone is fingerprinted, and a file that
\* matches neither is not
C25_Witness ==
    /\ pc = "hashed"
    /\ DOMAIN WalkedFiles = Range(GlobOrder)
    /\ WalkedFiles["Art.tga"].extra
    /\ "Art.tga" \in to_fingerprint
    /\ ~WalkedFiles["Core.lua"].extra
    /\ "Core.lua" \notin to_fingerprint

\* a file that the parsing reaches includes a path that resolves to no file
Dangling(files) ==
    \E inc \in IncludesOf(files, ReachedIn(files)) : ResolvesTo(files, inc) = {}

\* resolve_curse has got its rules and has begun to walk the directories
WalkBegun == Len(fingerprints) = Len(untracked) /\ pc \notin {"resolve", "tsm", "toc", "rules"}

\* C26: an include that cannot be resolved to a file is fatal to the
\* fingerprinting and is not passed over: no fingerprint is produced for
\* the directory, and no batch is sent to the catalog
C26_DanglingIncludeFatal ==
    \A k \in 1..Len(untracked) :
        (WalkBegun /\ Dangling(dir_tree[untracked[k]])) =>
            /\ ~fingerprints[k].some
            /\ k \notin fetched.done
            /\ pc \in {"walk", "panic"}
            /\ \A e \in 1..Len(events) : events[e].type # "Finished"
            /\ Len(addons) = Len(addons0) + EarlierAddons

\* the walk over a directory with such an include has panicked after the
\* walk over the other directory had ended with a fingerprint
C26_Witness ==
    /\ WalkBegun
    /\ pc = "panic"
    /\ Len(untracked) = 2
    /\ \E k \in 1..2 :
          /\ Dangling(dir_tree[untracked[k]])
          /\ fingerprints[3 - k].some

\* two paths of the same segments up to ASCII case
SameUpToCase(p, q) ==
    /\ Len(p) = Len(q)
    /\ \A i \in 1..Len(p) : Lower(p[i]) = Lower(q[i])

RECURSIVE Unclear(_, _, _)
\* at some level of the way down from `current`, the segment to find has
\* no child that matches it up to case, or has more than one
Unclear(fs, current, to_finds) ==
    /\ to_finds # <<>>
    /\ LET found == CaseMatches(fs, current, Head(to_finds))
       IN  \/ Cardinality(found) # 1
           \/ \E n \in found : Unclear(fs, Append(current, n), Tail(to_finds))

\* the call of find_file has ended
FindOver == pc \in {"found", "panic"}

\* C27: find_file returns an existing path that is the requested path up
\* to ASCII case in each segment, and it fails when at some level below
\* the nearest existing ancestor the segment has no case-insensitive match
\* among the children or has more than one
C27_FailsWhenUnclear ==
    FindOver =>
        LET k == NearestExisting(find_fs, find_path)
        IN  /\ find_out.ok =>
                  /\ Lookup(find_fs, find_out.val).some
                  /\ SameUpToCase(find_out.val, find_path)
            /\ Unclear(find_fs, SubSeq(find_path, 1, k),
                       SubSeq(find_path, k + 1, Len(find_path)))
                  => ~find_out.ok

\* C28: update cycles preserve conflict-freedom: when no two addons own
\* one directory before update_addons, then after a cycle that completes
\* check_conflicts returns the empty list, whatever set was accepted and
\* whatever the staged packages hold
C28_UpdateKeepsConflictFree ==
    (pc = "done" /\ check_conflicts(addons0) = <<>>) => check_conflicts(addons) = <<>>

\* a cycle has completed from a conflict-free list: both addons were
\* updated, and both own other dirs than before
C28_Witness ==
    /\ pc = "done"
    /\ check_conflicts(addons0) = <<>>
    /\ Len(outdated) = 2
    /\ \A k \in 1..Len(addons) :
          /\ addons[k].dirs # <<>>
          /\ addons[k].dirs # addons0[k].dirs

\* C29: one resolve pass never adds two addons that own one directory:
\* from a conflict-free list, check_conflicts returns the empty list after
\* resolve, also when several untracked directories have descriptors that
\* declare one project id and one list of project folders
C29_ResolveKeepsConflictFree ==
    (ResolveReturned /\ check_conflicts(addons0) = <<>>) =>
        check_conflicts(addons) = <<>>

\* a cycle has completed in which every proposed update was accepted
AllAcceptedDone == pc = "done" /\ outdated = proposed

\* C30: updating is idempotent against an unchanged remote: after a cycle
\* that completes with every candidate accepted, the Plan step against the
\* same remote yields no candidate, for addons of every source
C30_SecondPlanEmpty ==
    AllAcceptedDone => PlanResult(addons, remote) = Returned(<<>>)

\* a cycle has completed that updated an addon of each source
C30_Witness ==
    /\ AllAcceptedDone
    /\ Len(outdated) = 2
    /\ {addons[k].addon_type : k \in 1..Len(addons)} = {"Curse", "Tukui"}
    /\ \A k \in 1..Len(addons) : addons[k].version # addons0[k].version

====
